---- MODULE Spec2Model ----
(***************************************************************************)
(* cuimp-rs: a wrapper that runs a curl-impersonate binary and decodes its *)
(* output.  The module models                                              *)
(*   - the response decoder        (client.rs, parse_response),            *)
(*   - the request executor        (runner.rs, run_binary),                *)
(*   - the acquisition orchestrator (cuimp.rs, parser.rs),                 *)
(*   - the version-candidate selection (parser.rs).                        *)
(*   - single calls of the public functions on any input,                 *)
(*   - two concurrent acquisitions in one cache directory.                 *)
(* Text is a sequence of one-character strings; a byte that is not valid   *)
(* UTF-8 is the token "xFF" and decodes (lossily) to the token "uFFFD".    *)
(* Offsets are 0-based, as in the source.                                  *)
(***************************************************************************)
EXTENDS Integers, Sequences, FiniteSets, TLC

VARIABLES
    \* ---- response decoder ----
    stdout,      \* the bytes handed to parse_response
    gen,         \* how stdout was put together (blocks, body)
    resp,        \* the Result parse_response returned, or NoResult
    \* ---- request executor ----
    run,         \* the run_binary call: pc, timeout, countdown, buffers, result
    child,       \* the child process: liveness, pipes, pending output
    \* ---- acquisition orchestrator ----
    cuimp,       \* the Cuimp session: descriptor, path, binary_info
    fs,          \* the filesystem: set of entries [dir, name, kind, exec]
    host,        \* std::env::consts::{ARCH, OS} of the build
    hist,        \* what the session's operations did, newest last
    \* ---- version-candidate selection ----
    listing,     \* the order in which read_dir yielded the candidates
    selected,    \* the candidate picked, or NoResult
    \* ---- single calls ----
    call,        \* one call of a public function: input, result, events
    \* ---- concurrent acquisitions ----
    race         \* two calls of parse_descriptor and the files they share

vars == <<stdout, gen, resp, run, child, cuimp, fs, host, hist, listing, selected,
          call, race>>

decodeVars == <<stdout, gen, resp>>
runVars == <<run, child>>
resolveVars == <<cuimp, fs, host, hist>>
selectVars == <<listing, selected>>
callVars == <<call>>
raceVars == <<race>>

\* a step of one component leaves the others alone
OnlyDecode == UNCHANGED <<runVars, resolveVars, selectVars, callVars, raceVars>>
OnlyRun == UNCHANGED <<decodeVars, resolveVars, selectVars, callVars, raceVars>>
OnlyResolve == UNCHANGED <<decodeVars, runVars, selectVars, callVars, raceVars>>
OnlySelect == UNCHANGED <<decodeVars, runVars, resolveVars, callVars, raceVars>>
OnlyCall == UNCHANGED <<decodeVars, runVars, selectVars, raceVars, cuimp, hist>>
OnlyRace == UNCHANGED <<decodeVars, runVars, resolveVars, selectVars, callVars>>

NoResult == [ok |-> FALSE, err |-> "none"]
\* Option<T>
None == <<>>
Some(x) == <<x>>
IsSome(o) == o # <<>>
Unwrap(o) == o[1]

----------------------------------------------------------------------------
(* Text helpers: the std and serde_json functions the source calls.        *)

Digits == {"0", "1", "2", "3", "4", "5", "6", "7", "8", "9"}

DigitVal(c) ==
    CASE c = "0" -> 0 [] c = "1" -> 1 [] c = "2" -> 2 [] c = "3" -> 3
      [] c = "4" -> 4 [] c = "5" -> 5 [] c = "6" -> 6 [] c = "7" -> 7
      [] c = "8" -> 8 [] c = "9" -> 9

DigitChar(d) ==
    CASE d = 0 -> "0" [] d = 1 -> "1" [] d = 2 -> "2" [] d = 3 -> "3"
      [] d = 4 -> "4" [] d = 5 -> "5" [] d = 6 -> "6" [] d = 7 -> "7"
      [] d = 8 -> "8" [] d = 9 -> "9"

\* char::is_whitespace, on the characters the model uses
Whitespace == {" ", "\t", "\n", "\r"}

\* s[a..b] of the source: 0-based, b exclusive
Slice(s, a, b) == SubSeq(s, a + 1, b)

\* &s[i..i + Len(pat)] == pat, false when the window leaves s
IsAt(s, i, pat) == i + Len(pat) <= Len(s) /\ Slice(s, i, i + Len(pat)) = pat

\* str::contains
Contains(s, pat) == \E i \in 0..Len(s) : IsAt(s, i, pat)

\* str::starts_with
StartsWith(s, pat) == IsAt(s, 0, pat)

\* the least element of a non-empty set of numbers
Least(S) == CHOOSE i \in S : \A j \in S : i <= j

\* str::find: offset of the first match, -1 for None
Find(s, pat) ==
    LET hits == {i \in 0..Len(s) : IsAt(s, i, pat)} IN
    IF hits = {} THEN -1 ELSE Least(hits)

\* Display of an unsigned integer ({} in format!)
RECURSIVE Decimal(_)
Decimal(n) == IF n < 10 THEN <<DigitChar(n)>>
              ELSE Decimal(n \div 10) \o <<DigitChar(n % 10)>>

\* String::from_utf8_lossy: an invalid byte becomes U+FFFD
Utf8Lossy(bytes) == [i \in 1..Len(bytes) |-> IF bytes[i] = "xFF" THEN "uFFFD" ELSE bytes[i]]

\* str::trim_start / trim_end / trim
RECURSIVE TrimStart(_)
TrimStart(s) == IF s # <<>> /\ Head(s) \in Whitespace THEN TrimStart(Tail(s)) ELSE s

RECURSIVE TrimEnd(_)
TrimEnd(s) == IF s # <<>> /\ s[Len(s)] \in Whitespace
              THEN TrimEnd(SubSeq(s, 1, Len(s) - 1)) ELSE s

Trim(s) == TrimEnd(TrimStart(s))

\* str::split(pat): the pieces between the non-overlapping matches, left to
\* right; n matches give n + 1 pieces, empty ones included
RECURSIVE SplitStr(_, _)
SplitStr(s, pat) ==
    LET i == Find(s, pat) IN
    IF i = -1 THEN <<s>>
    ELSE <<Slice(s, 0, i)>> \o SplitStr(Slice(s, i + Len(pat), Len(s)), pat)

\* str::lines: split_inclusive('\n'), then each piece loses its "\n" and,
\* only if it had one, a "\r" right before it
StripLine(piece) ==
    IF piece # <<>> /\ piece[Len(piece)] = "\n"
    THEN LET l == SubSeq(piece, 1, Len(piece) - 1) IN
         IF l # <<>> /\ l[Len(l)] = "\r" THEN SubSeq(l, 1, Len(l) - 1) ELSE l
    ELSE piece

RECURSIVE Lines(_)
Lines(s) ==
    IF s = <<>> THEN <<>>
    ELSE LET i == Find(s, <<"\n">>) IN
         IF i = -1 THEN <<StripLine(s)>>
         ELSE <<StripLine(Slice(s, 0, i + 1))>> \o Lines(Slice(s, i + 1, Len(s)))

\* str::split_whitespace: the maximal runs of non-whitespace
RECURSIVE TakeWord(_)
TakeWord(s) == IF s = <<>> \/ Head(s) \in Whitespace THEN <<>>
               ELSE <<Head(s)>> \o TakeWord(Tail(s))

RECURSIVE SplitWhitespace(_)
SplitWhitespace(s) ==
    LET t == TrimStart(s) IN
    IF t = <<>> THEN <<>>
    ELSE LET w == TakeWord(t) IN
         <<w>> \o SplitWhitespace(Slice(t, Len(w), Len(t)))

\* [..].join(" ")
RECURSIVE JoinSpace(_)
JoinSpace(parts) ==
    IF parts = <<>> THEN <<>>
    ELSE IF Len(parts) = 1 THEN parts[1]
    ELSE parts[1] \o <<" ">> \o JoinSpace(Tail(parts))

\* the value of a string of ASCII digits
RECURSIVE DigitsValue(_)
DigitsValue(ds) == IF ds = <<>> THEN 0
                   ELSE 10 * DigitsValue(SubSeq(ds, 1, Len(ds) - 1)) + DigitVal(ds[Len(ds)])

AllDigits(s) == \A i \in 1..Len(s) : s[i] \in Digits

\* An unsigned integer is kept as its decimal digits without leading zeros,
\* so that a value of any width compares exactly.
RECURSIVE StripZeros(_)
StripZeros(ds) == IF Len(ds) > 1 /\ Head(ds) = "0" THEN StripZeros(Tail(ds)) ELSE ds

RECURSIVE LexLess(_, _)
LexLess(a, b) ==
    IF a = <<>> THEN FALSE
    ELSE IF Head(a) # Head(b) THEN DigitVal(Head(a)) < DigitVal(Head(b))
    ELSE LexLess(Tail(a), Tail(b))

\* a < b, as integers
NumLess(a, b) == Len(a) < Len(b) \/ (Len(a) = Len(b) /\ LexLess(a, b))

U16MaxDigits == <<"6", "5", "5", "3", "5">>
U32MaxDigits == <<"4", "2", "9", "4", "9", "6", "7", "2", "9", "5">>

Zero == <<"0">>

\* <unsigned>::from_str: an optional "+", then one or more digits, the value
\* at most max; <<>> stands for Err
ParseUnsigned(s, max) ==
    LET ds == IF s # <<>> /\ Head(s) = "+" THEN Tail(s) ELSE s IN
    IF ds = <<>> \/ ~AllDigits(ds) THEN <<>>
    ELSE IF NumLess(max, StripZeros(ds)) THEN <<>>
    ELSE StripZeros(ds)

\* str::to_lowercase, on ASCII
Lower(c) ==
    CASE c = "A" -> "a" [] c = "B" -> "b" [] c = "C" -> "c" [] c = "D" -> "d"
      [] c = "E" -> "e" [] c = "F" -> "f" [] c = "G" -> "g" [] c = "H" -> "h"
      [] c = "I" -> "i" [] c = "J" -> "j" [] c = "K" -> "k" [] c = "L" -> "l"
      [] c = "M" -> "m" [] c = "N" -> "n" [] c = "O" -> "o" [] c = "P" -> "p"
      [] c = "Q" -> "q" [] c = "R" -> "r" [] c = "S" -> "s" [] c = "T" -> "t"
      [] c = "U" -> "u" [] c = "V" -> "v" [] c = "W" -> "w" [] c = "X" -> "x"
      [] c = "Y" -> "y" [] c = "Z" -> "z" [] OTHER -> c

ToLowercase(s) == [i \in 1..Len(s) |-> Lower(s[i])]

----------------------------------------------------------------------------
(* serde_json::from_str, as a recogniser of the JSON grammar.  A decoded   *)
(* value is [kind, text]: its JSON type and the text of the value (for a   *)
(* string, the text between the quotes).                                   *)

\* the character at 0-based offset j, "EOF" past the end
At(s, j) == IF j < Len(s) THEN s[j + 1] ELSE "EOF"

RECURSIVE SkipWs(_, _)
SkipWs(s, i) == IF At(s, i) \in Whitespace THEN SkipWs(s, i + 1) ELSE i

RECURSIVE SkipDigits(_, _)
SkipDigits(s, i) == IF At(s, i) \in Digits THEN SkipDigits(s, i + 1) ELSE i

HexDigits == Digits \cup {"a", "b", "c", "d", "e", "f", "A", "B", "C", "D", "E", "F"}

\* i is the offset after the opening quote; the offset after the closing
\* quote, or -1
RECURSIVE JsonStringEnd(_, _)
JsonStringEnd(s, i) ==
    LET c == At(s, i) IN
    IF c = "EOF" \/ c \in {"\n", "\r", "\t"} THEN -1
    ELSE IF c = "\"" THEN i + 1
    ELSE IF c = "\\"
         THEN IF At(s, i + 1) \in {"\"", "\\", "/", "b", "f", "n", "r", "t"}
              THEN JsonStringEnd(s, i + 2)
              ELSE IF At(s, i + 1) = "u" /\ \A k \in 2..5 : At(s, i + k) \in HexDigits
                   THEN JsonStringEnd(s, i + 6)
                   ELSE -1
    ELSE JsonStringEnd(s, i + 1)

\* the offset after the number that starts at i, or -1
JsonNumberEnd(s, i) ==
    LET a == IF At(s, i) = "-" THEN i + 1 ELSE i
        b == IF At(s, a) = "0" THEN a + 1
             ELSE IF At(s, a) \in Digits THEN SkipDigits(s, a) ELSE -1
        c == IF b = -1 THEN -1
             ELSE IF At(s, b) = "."
                  THEN IF At(s, b + 1) \in Digits THEN SkipDigits(s, b + 1) ELSE -1
                  ELSE b
        d == IF c = -1 THEN -1
             ELSE IF At(s, c) \in {"e", "E"}
                  THEN LET e == IF At(s, c + 1) \in {"+", "-"} THEN c + 2 ELSE c + 1 IN
                       IF At(s, e) \in Digits THEN SkipDigits(s, e) ELSE -1
                  ELSE c
    IN  IF b # -1 /\ At(s, b) \in Digits THEN -1 ELSE d

RECURSIVE JsonValueEnd(_, _), JsonElemsEnd(_, _), JsonMembersEnd(_, _)

\* the offset after the value that starts at or after i (leading whitespace
\* skipped), or -1
JsonValueEnd(s, i) ==
    LET j == SkipWs(s, i)
        c == At(s, j)
    IN  IF c = "\"" THEN JsonStringEnd(s, j + 1)
        ELSE IF c = "-" \/ c \in Digits THEN JsonNumberEnd(s, j)
        ELSE IF IsAt(s, j, <<"t", "r", "u", "e">>) THEN j + 4
        ELSE IF IsAt(s, j, <<"f", "a", "l", "s", "e">>) THEN j + 5
        ELSE IF IsAt(s, j, <<"n", "u", "l", "l">>) THEN j + 4
        ELSE IF c = "["
             THEN IF At(s, SkipWs(s, j + 1)) = "]" THEN SkipWs(s, j + 1) + 1
                  ELSE JsonElemsEnd(s, j + 1)
        ELSE IF c = "{"
             THEN IF At(s, SkipWs(s, j + 1)) = "}" THEN SkipWs(s, j + 1) + 1
                  ELSE JsonMembersEnd(s, j + 1)
        ELSE -1

\* value (ws "," value)* ws "]"
JsonElemsEnd(s, i) ==
    LET e == JsonValueEnd(s, i) IN
    IF e = -1 THEN -1
    ELSE LET k == SkipWs(s, e) IN
         IF At(s, k) = "]" THEN k + 1
         ELSE IF At(s, k) = "," THEN JsonElemsEnd(s, k + 1)
         ELSE -1

\* string ws ":" value (ws "," ws string ws ":" value)* ws "}"
JsonMembersEnd(s, i) ==
    LET j == SkipWs(s, i)
        e == IF At(s, j) = "\"" THEN JsonStringEnd(s, j + 1) ELSE -1
    IN  IF e = -1 THEN -1
        ELSE LET k == SkipWs(s, e) IN
             IF At(s, k) # ":" THEN -1
             ELSE LET v == JsonValueEnd(s, k + 1) IN
                  IF v = -1 THEN -1
                  ELSE LET m == SkipWs(s, v) IN
                       IF At(s, m) = "}" THEN m + 1
                       ELSE IF At(s, m) = "," THEN JsonMembersEnd(s, m + 1)
                       ELSE -1

JsonKind(c) ==
    CASE c = "\"" -> "string" [] c = "[" -> "array" [] c = "{" -> "object"
      [] c = "t" -> "bool" [] c = "f" -> "bool" [] c = "n" -> "null"
      [] OTHER -> "number"

JsonText(kind, text) ==
    IF kind = "string" THEN SubSeq(text, 2, Len(text) - 1) ELSE text

\* serde_json::from_str::<Value>: one value, then only whitespace
FromStr(s) ==
    LET e == JsonValueEnd(s, 0) IN
    IF e = -1 \/ SkipWs(s, e) # Len(s) THEN [ok |-> FALSE]
    ELSE LET j == SkipWs(s, 0) IN
         [ok |-> TRUE,
          value |-> [kind |-> JsonKind(At(s, j)),
                     text |-> JsonText(JsonKind(At(s, j)), Slice(s, j, e))]]

----------------------------------------------------------------------------
(* The response decoder: client.rs, parse_response and try_parse_body.     *)

HttpMarker == <<"H", "T", "T", "P", "/">>
Separator1 == <<"\r", "\n", "\r", "\n">>
Separator2 == <<"\n", "\n">>

MsgShortPrefix == <<"E", "m", "p", "t", "y", " ", "o", "r", " ", "t", "o", "o", " ", "s", "h", "o", "r", "t", " ", "r", "e", "s", "p", "o", "n", "s", "e", " ", "f", "r", "o", "m", " ", "c", "u", "r", "l", "-", "i", "m", "p", "e", "r", "s", "o", "n", "a", "t", "e", " ", "(">>
MsgShortMiddle == <<" ", "b", "y", "t", "e", "s", ")", ".", " ", "T", "h", "i", "s", " ", "u", "s", "u", "a", "l", "l", "y", " ", "m", "e", "a", "n", "s", ":", "\n", " ", " ", "-", " ", "C", "o", "n", "n", "e", "c", "t", "i", "o", "n", " ", "f", "a", "i", "l", "e", "d", "\n", " ", " ", "-", " ", "P", "r", "o", "x", "y", " ", "u", "n", "r", "e", "a", "c", "h", "a", "b", "l", "e", "\n", " ", " ", "-", " ", "T", "i", "m", "e", "o", "u", "t", "\n", " ", " ", "-", " ", "I", "n", "v", "a", "l", "i", "d", " ", "U", "R", "L", "\n", "\n", "O", "u", "t", "p", "u", "t", ":", " ">>
MsgNoHttpPrefix == <<"N", "o", " ", "H", "T", "T", "P", " ", "r", "e", "s", "p", "o", "n", "s", "e", " ", "f", "o", "u", "n", "d", ":", "\n">>

DefaultStatusLine == <<"H", "T", "T", "P", "/", "1", ".", "1", " ", "2", "0", "0", " ", "O", "K">>
DefaultStatus == 200
DefaultStatusText == <<"O", "K">>
PreviewLimit == 500
ContentTypeKey == <<"c", "o", "n", "t", "e", "n", "t", "-", "t", "y", "p", "e">>
ApplicationJson == <<"a", "p", "p", "l", "i", "c", "a", "t", "i", "o", "n", "/", "j", "s", "o", "n">>

Min(a, b) == IF a < b THEN a ELSE b

\* the Err values of CuimpError the decoder produces
InvalidResponse(msg) == [ok |-> FALSE, err |-> "InvalidResponse", msg |-> msg]
JsonError == [ok |-> FALSE, err |-> "JsonError", msg |-> <<>>]

\* a decoder that reports the length of the decoded preview instead of the
\* length of the stream: U+FFFD takes three bytes where the bad byte took one
TooShortErrorOfPreview(out) ==
    LET preview == Utf8Lossy(out)
        bytes == Len(preview)
                 + 2 * Cardinality({i \in 1..Len(preview) : preview[i] = "uFFFD"})
    IN  InvalidResponse(MsgShortPrefix \o Decimal(bytes) \o MsgShortMiddle \o preview)

\* client.rs 324-332: the stream cannot hold the marker
TooShortError(out) ==
    InvalidResponse(MsgShortPrefix \o Decimal(Len(out)) \o MsgShortMiddle
                    \o Utf8Lossy(out))

\* client.rs 336-342: the offsets of every "HTTP/", ascending
RECURSIVE Ascending(_)
Ascending(S) == IF S = {} THEN <<>> ELSE <<Least(S)>> \o Ascending(S \ {Least(S)})

\* a decoder that looks for "HTTP" without the slash
HttpStartsNoSlash(out) ==
    Ascending({i \in 0..(Len(out) - 5) : IsAt(out, i, <<"H", "T", "T", "P">>)})

HttpStarts(out) == Ascending({i \in 0..(Len(out) - 5) : IsAt(out, i, HttpMarker)})

\* client.rs 344-350
NoHttpError(out) ==
    InvalidResponse(MsgNoHttpPrefix
                    \o Utf8Lossy(Slice(out, 0, Min(Len(out), PreviewLimit))))

\* client.rs 360-370: the inner loop, from one "HTTP/" offset on; it stops
\* at the first offset that holds either separator, "\r\n\r\n" tested first
FindSeparator(out, start) ==
    LET hits == {i \in start..(Len(out) - 1) :
                    IsAt(out, i, Separator1) \/ IsAt(out, i, Separator2)}
    IN  IF hits = {} THEN [found |-> FALSE, end |-> 0, length |-> 0]
        ELSE [found |-> TRUE, end |-> Least(hits),
              length |-> IF IsAt(out, Least(hits), Separator1) THEN 4 ELSE 2]

\* client.rs 355-371: the outer loop; every "HTTP/" that has a separator
\* after it overwrites last_header_end
RECURSIVE LastHeaderEnd(_, _, _)
\* a search that, finding no separator, takes the whole stream as headers
LastHeaderEndOrAll(out, starts, acc) ==
    IF starts = <<>>
    THEN IF acc.length = 0 THEN [end |-> Len(out), length |-> 0] ELSE acc
    ELSE LET f == FindSeparator(out, Head(starts)) IN
         LastHeaderEnd(out, Tail(starts),
                       IF f.found THEN [end |-> f.end, length |-> f.length] ELSE acc)

\* client.rs 355-371
LastHeaderEnd(out, starts, acc) ==
    IF starts = <<>> THEN acc
    ELSE LET f == FindSeparator(out, Head(starts)) IN
         LastHeaderEnd(out, Tail(starts),
                       IF f.found THEN [end |-> f.end, length |-> f.length] ELSE acc)

\* client.rs 384: the filter on the pieces of header_text.split("HTTP/")
IsValidBlock(block) == Trim(block) # <<>> /\ Head(Trim(block)) \in Digits

ValidBlocks(header_text) == SelectSeq(SplitStr(header_text, HttpMarker), IsValidBlock)

\* client.rs 387-391
LastBlock(header_text) ==
    LET valid_blocks == ValidBlocks(header_text) IN
    IF valid_blocks # <<>> THEN HttpMarker \o valid_blocks[Len(valid_blocks)]
    ELSE header_text

\* client.rs 397-402
ParseStatus(status_parts) ==
    IF Len(status_parts) >= 2
    THEN LET n == ParseUnsigned(status_parts[2], U16MaxDigits) IN
         IF n = <<>> THEN DefaultStatus ELSE DigitsValue(n)
    ELSE DefaultStatus

\* client.rs 403-407
ParseStatusText(status_parts) ==
    IF Len(status_parts) >= 3 THEN JoinSpace(SubSeq(status_parts, 3, Len(status_parts)))
    ELSE DefaultStatusText

\* HashMap::insert
Insert(map, key, value) ==
    [k \in DOMAIN map \cup {key} |-> IF k = key THEN value ELSE map[k]]

EmptyMap == [k \in {} |-> <<>>]

\* client.rs 409-416: lines.iter().skip(1), split at the first colon
RECURSIVE ParseHeaders(_, _)
ParseHeaders(lines, acc) ==
    IF lines = <<>> THEN acc
    ELSE LET line == Head(lines)
             idx == Find(line, <<":">>)
         IN  ParseHeaders(Tail(lines),
                 IF idx = -1 THEN acc
                 ELSE Insert(acc, Trim(Slice(line, 0, idx)),
                             Trim(Slice(line, idx + 1, Len(line)))))

\* client.rs 442-446: HashMap::iter().find(..) yields any entry whose key
\* lowercases to "content-type"; the iteration order is unspecified
ContentTypes(headers) ==
    LET hits == {k \in DOMAIN headers : ToLowercase(k) = ContentTypeKey} IN
    IF hits = {} THEN {<<>>} ELSE {ToLowercase(headers[k]) : k \in hits}

\* the result types T a caller can ask for: serde_json::Value, or a struct
\* deriving Deserialize (which a JSON object can fill, and nothing else)
Targets == {"Value", "Struct"}

\* serde_json::from_str::<T>
Deserialize(T, parsed) ==
    IF T = "Value" \/ ~parsed.ok THEN parsed
    ELSE IF parsed.value.kind = "object" THEN parsed ELSE [ok |-> FALSE]

FromStrAs(T, s) == Deserialize(T, FromStr(s))

\* serde_json::from_value::<T>(Value::String(text))
FromValueString(T, text) ==
    IF T = "Value" THEN [ok |-> TRUE, value |-> [kind |-> "string", text |-> text]]
    ELSE [ok |-> FALSE]

\* client.rs 437-461
TryParseBody(T, body, content_type) ==
    LET text == Utf8Lossy(body)
        parsed == FromStrAs(T, text)
    IN  IF Contains(content_type, ApplicationJson)
        THEN IF parsed.ok THEN [ok |-> TRUE, value |-> parsed.value] ELSE JsonError
        ELSE IF parsed.ok THEN [ok |-> TRUE, value |-> parsed.value]
             ELSE LET string == FromValueString(T, text)
                  IN  IF string.ok THEN [ok |-> TRUE, value |-> string.value]
                      ELSE JsonError

\* client.rs 313-434: the set of results parse_response can return
ParseResponse(T, out, request) ==
    IF Len(out) < 5 THEN {TooShortError(out)}
    ELSE LET http_starts == HttpStarts(out) IN
    IF http_starts = <<>> THEN {NoHttpError(out)}
    ELSE LET last == LastHeaderEnd(out, http_starts, [end |-> 0, length |-> 0])
             header_bytes == Slice(out, 0, last.end)
             raw_body == Slice(out, last.end + last.length, Len(out))
             header_text == Utf8Lossy(header_bytes)
             lines == Lines(LastBlock(header_text))
             status_line == IF lines # <<>> THEN lines[1] ELSE DefaultStatusLine
             status_parts == SplitWhitespace(status_line)
             resp_headers == ParseHeaders(IF lines = <<>> THEN <<>> ELSE Tail(lines), EmptyMap)
         IN  { LET data == TryParseBody(T, raw_body, ct) IN
               IF ~data.ok THEN data
               ELSE [ok |-> TRUE, err |-> "",
                     status |-> ParseStatus(status_parts),
                     status_text |-> ParseStatusText(status_parts),
                     headers |-> resp_headers,
                     data |-> data.value,
                     raw_body |-> raw_body,
                     request |-> request]
               : ct \in ContentTypes(resp_headers) }

----------------------------------------------------------------------------
(* The streams the decoder is run on.  A stream is a number of header      *)
(* blocks followed by a body; a stream of no block is its body alone.      *)

MaxPieces == 4      \* pieces in a stream that is not made of blocks
MaxHops == 1        \* header blocks before the final one
MaxHeaders == 2     \* header lines of the final block

\* all sequences of at most n elements of S
SeqsUpTo(S, n) == UNION {[1..k -> S] : k \in 0..n}

RECURSIVE Concat(_)
Concat(seqs) == IF seqs = <<>> THEN <<>> ELSE Head(seqs) \o Concat(Tail(seqs))

RawPieces ==
    { <<"H", "T", "T", "P">>, <<"/">>, <<"1">>, <<"\n">>, <<"\r", "\n">>, <<"xFF">> }

StatusLines ==
    { [version |-> <<"1", ".", "1">>, code |-> <<"2", "0", "0">>, text |-> <<"O", "K">>],
      [version |-> <<"1", ".", "1">>, code |-> <<"3", "0", "1">>,
       text |-> <<"M", "o", "v", "e", "d">>],
      [version |-> <<"2">>, code |-> <<"4", "0", "4">>,
       text |-> <<"N", "o", "t", " ", "F", "o", "u", "n", "d">>] }

HopStatusLines ==
    { [version |-> <<"1", ".", "1">>, code |-> <<"3", "0", "1">>,
       text |-> <<"M", "o", "v", "e", "d">>],
      [version |-> <<"1", ".", "1">>, code |-> <<"2", "0", "0">>,
       text |-> <<"C", "o", "n", "n", "e", "c", "t", "i", "o", "n", " ", "e", "s", "t", "a", "b", "l", "i", "s", "h", "e", "d">>] }

JsonContentType ==
    [key |-> <<"C", "o", "n", "t", "e", "n", "t", "-", "T", "y", "p", "e">>,
     value |-> <<"a", "p", "p", "l", "i", "c", "a", "t", "i", "o", "n", "/", "j", "s", "o", "n">>]

ViaHeader ==
    [key |-> <<"V", "i", "a">>, value |-> <<"H", "T", "T", "P", "/", "1", ".", "1", " ", "p">>]

\* a second content type, under a key in another case
PlainContentType ==
    [key |-> <<"c", "o", "n", "t", "e", "n", "t", "-", "t", "y", "p", "e">>,
     value |-> <<"t", "e", "x", "t", "/", "p", "l", "a", "i", "n">>]

HeaderLines ==
    { JsonContentType, PlainContentType, ViaHeader,
      [key |-> <<"A">>, value |-> <<"b">>], [key |-> <<"A">>, value |-> <<"c">>] }

\* a redirect hop names its target; a proxy's CONNECT answer has no headers
HopHeaders(status) ==
    IF status.code = <<"3", "0", "1">>
    THEN <<[key |-> <<"L", "o", "c", "a", "t", "i", "o", "n">>, value |-> <<"/", "x">>]>>
    ELSE <<>>

MarkerBody == <<"[", "\"", "H", "T", "T", "P", "/", "1", "\"", ",", "\n", "\n", "2", "]">>

Bodies ==
    { <<>>, <<"7">>, <<"a", "b">>, <<"{", "\"", "k", "\"", ":", "\"", "v", "\"", "}">>,
      MarkerBody }

Eol(sep) == IF sep = Separator1 THEN <<"\r", "\n">> ELSE <<"\n">>

HeaderLine(h) == h.key \o <<":", " ">> \o h.value

RECURSIVE HeaderText(_, _)
HeaderText(headers, eol) ==
    IF headers = <<>> THEN <<>>
    ELSE eol \o HeaderLine(Head(headers)) \o HeaderText(Tail(headers), eol)

\* "HTTP/<version> <code> <text>", the header lines, the separator
BlockText(b, sep) ==
    HttpMarker \o b.status.version \o <<" ">> \o b.status.code \o <<" ">> \o b.status.text
    \o HeaderText(b.headers, Eol(sep)) \o sep

RECURSIVE BlocksText(_, _)
BlocksText(blocks, sep) ==
    IF blocks = <<>> THEN <<>>
    ELSE BlockText(Head(blocks), sep) \o BlocksText(Tail(blocks), sep)

StreamOf(g) == BlocksText(g.blocks, g.sep) \o g.body

HopBlocks == {[status |-> s, headers |-> HopHeaders(s)] : s \in HopStatusLines}
FinalBlocks == [status : StatusLines, headers : SeqsUpTo(HeaderLines, MaxHeaders)]

RawStreams ==
    { [blocks |-> <<>>, sep |-> Separator2, body |-> Concat(ps)]
      : ps \in SeqsUpTo(RawPieces, MaxPieces) }

BlockStreams ==
    { [blocks |-> Append(hops, final), sep |-> sep, body |-> body]
      : hops \in SeqsUpTo(HopBlocks, MaxHops), final \in FinalBlocks,
        sep \in {Separator1, Separator2}, body \in Bodies }

\* a final block cut off before its separator: the status line, or the
\* status line and one header line
CutStreams ==
    { [blocks |-> <<>>, sep |-> sep,
       body |-> SubSeq(BlockText([status |-> st, headers |-> hs], sep), 1,
                       Len(BlockText([status |-> st, headers |-> hs], sep)) - Len(sep))]
      : st \in StatusLines, hs \in SeqsUpTo({JsonContentType}, 1),
        sep \in {Separator1, Separator2} }

DecodeInputs == RawStreams \cup BlockStreams \cup CutStreams

\* the caller's request, echoed in the response
Request ==
    [url |-> "https://example.com", method |-> "GET", headers |-> EmptyMap,
     command |-> "curl-impersonate --location --max-redirs 10 -i https://example.com"]

----------------------------------------------------------------------------
(* The request executor: runner.rs, run_binary and read_stream.            *)
(* Time is counted in ticks of one millisecond each.  The child is the     *)
(* program spawned: it writes its output into the two pipes, closes them   *)
(* (early, or by exiting) and exits when its natural runtime has passed.   *)

MaxTimeout == 2     \* largest timeout_ms
MaxRuntime == 3     \* largest natural runtime of the child
MaxChunks == 1      \* chunks the child writes to one stream
PipeCapacity == 1   \* chunks a pipe holds before the writer blocks

Never == -1         \* the runtime of a child that does not exit by itself

Streams == {"stdout", "stderr"}

\* the chunks the child writes to a stream, in order
ChunksOf(st, n) == [i \in 1..n |-> <<st, i>>]

Children ==
    [state : {"none"},
     natural : (0..MaxRuntime) \cup {Never},   \* its natural runtime
     left : {0},                               \* ticks until it exits
     todo : {[st \in Streams |-> ChunksOf(st, n[st])] : n \in [Streams -> 0..MaxChunks]},
     pipe : {[st \in Streams |-> <<>>]},       \* written, not yet read
     wrote : {[st \in Streams |-> 0]},         \* how many chunks it has written
     open : {[st \in Streams |-> FALSE]},      \* the child's write ends
     early_close : BOOLEAN,                    \* closes its pipes before it exits
     code : {Some(0), Some(1), None},          \* None: ended by a signal
     fault : {"none", "spawn", "read", "wait"}]

RunStart(t) ==
    [pc |-> "start", timeout_ms |-> t, countdown |-> 0, elapsed |-> 0,
     buffer |-> [st \in Streams |-> <<>>],
     done |-> [st \in Streams |-> FALSE],
     failed |-> [st \in Streams |-> FALSE],
     result |-> NoResult]

Timeouts == {Some(t) : t \in 0..MaxTimeout} \cup {None}

RunIdle == [RunStart(None) EXCEPT !.pc = "idle"]
ChildIdle ==
    [state |-> "none", natural |-> 0, left |-> 0,
     todo |-> [st \in Streams |-> <<>>], pipe |-> [st \in Streams |-> <<>>],
     wrote |-> [st \in Streams |-> 0],
     open |-> [st \in Streams |-> FALSE], early_close |-> FALSE, code |-> None,
     fault |-> "none"]

RequestFailed(msg) == [ok |-> FALSE, err |-> "RequestFailed", msg |-> msg]
TimeoutError(ms) == [ok |-> FALSE, err |-> "Timeout", ms |-> ms]
IoError == [ok |-> FALSE, err |-> "IoError"]

Return(r) == [run EXCEPT !.pc = "done", !.result = r]

\* runner.rs 19-33: spawn with both outputs piped
Spawn ==
    /\ run.pc = "start"
    /\ IF child.fault = "spawn"
       THEN /\ run' = Return(RequestFailed("Failed to spawn process"))
            /\ UNCHANGED child
       ELSE /\ run' = [run EXCEPT !.pc = "reading"]
            /\ child' = [child EXCEPT !.state = "running", !.left = child.natural,
                                      !.open = [st \in Streams |-> TRUE]]
    /\ OnlyRun

\* the child writes its next chunk, unless the pipe is full
ChildWrite(st) ==
    /\ child.state = "running" /\ child.open[st]
    /\ child.todo[st] # <<>>
    /\ Len(child.pipe[st]) < PipeCapacity
    /\ child' = [child EXCEPT !.pipe[st] = Append(@, Head(child.todo[st])),
                              !.todo[st] = Tail(@),
                              !.wrote[st] = @ + 1]
    /\ UNCHANGED run
    /\ OnlyRun

\* the child closes a stream it has finished, while it keeps running
ChildClose(st) ==
    /\ child.state = "running" /\ child.early_close /\ child.open[st]
    /\ child.todo[st] = <<>>
    /\ child' = [child EXCEPT !.open[st] = FALSE]
    /\ UNCHANGED run
    /\ OnlyRun

CanExit ==
    /\ child.state = "running" /\ child.left = 0
    /\ \A st \in Streams : child.todo[st] = <<>>

\* the child exits at the end of its natural runtime; its pipes close
ChildExit ==
    /\ CanExit
    /\ child' = [child EXCEPT !.state = "exited", !.open = [st \in Streams |-> FALSE]]
    /\ UNCHANGED run
    /\ OnlyRun

\* runner.rs 77-86: read_to_end takes what is in the pipe
ReadChunk(st) ==
    /\ run.pc = "reading" /\ ~run.done[st]
    /\ child.pipe[st] # <<>>
    /\ run' = [run EXCEPT !.buffer[st] = Append(@, Head(child.pipe[st]))]
    /\ child' = [child EXCEPT !.pipe[st] = Tail(@)]
    /\ OnlyRun

\* runner.rs 77-86: read_to_end ends at end of file, when the pipe is empty
\* and every write end is closed
ReadEof(st) ==
    /\ run.pc = "reading" /\ ~run.done[st]
    /\ child.pipe[st] = <<>> /\ ~child.open[st]
    /\ run' = [run EXCEPT !.done[st] = TRUE]
    /\ UNCHANGED child
    /\ OnlyRun

\* runner.rs 84: read_to_end fails
ReadError(st) ==
    /\ run.pc = "reading" /\ ~run.done[st]
    /\ child.fault = "read"
    /\ run' = [run EXCEPT !.done[st] = TRUE, !.failed[st] = TRUE]
    /\ UNCHANGED child
    /\ OnlyRun

\* runner.rs 36-46: join! returns once both reads have ended; only then is
\* the timeout armed
JoinDone ==
    /\ run.pc = "reading"
    /\ \A st \in Streams : run.done[st]
    /\ IF \E st \in Streams : run.failed[st]
       THEN run' = Return(IoError)
       ELSE run' = [run EXCEPT !.pc = "waiting",
                               !.countdown = IF run.timeout_ms = None THEN 0
                                             ELSE Unwrap(run.timeout_ms)]
    /\ UNCHANGED child
    /\ OnlyRun

RunResult == [ok |-> TRUE, err |-> "", exit_code |-> child.code,
              stdout |-> run.buffer["stdout"], stderr |-> run.buffer["stderr"]]

\* a wait that reports a non-zero exit status as a failure
WaitDoneChecksStatus ==
    /\ run.pc = "waiting"
    /\ child.state = "exited" /\ child.fault # "wait"
    /\ run' = Return(IF child.code = Some(0) THEN RunResult
                     ELSE RequestFailed("Process exited with failure"))
    /\ UNCHANGED child
    /\ OnlyRun

\* runner.rs 47, 64-74: child.wait() is ready, it is polled before the timer
WaitDone ==
    /\ run.pc = "waiting"
    /\ child.state = "exited" /\ child.fault # "wait"
    /\ run' = Return(RunResult)
    /\ UNCHANGED child
    /\ OnlyRun

\* runner.rs 48-53, 67: child.wait() fails
WaitError ==
    /\ run.pc = "waiting"
    /\ child.fault = "wait"
    /\ run' = Return(RequestFailed(IF run.timeout_ms = None THEN "Process wait error"
                                   ELSE "Process error"))
    /\ UNCHANGED child
    /\ OnlyRun

TimerExpired ==
    /\ run.pc = "waiting" /\ run.timeout_ms # None /\ run.countdown = 0
    /\ child.state = "running" /\ child.fault # "wait"

\* runner.rs 54-61: the timer fires first; the child is killed
TimeoutFire ==
    /\ TimerExpired
    /\ run' = Return(TimeoutError(Unwrap(run.timeout_ms)))
    /\ child' = [child EXCEPT !.state = "killed", !.open = [st \in Streams |-> FALSE]]
    /\ OnlyRun

MaxTime == MaxTimeout + MaxRuntime + 1

\* one millisecond passes; a child due to exit and a timer due to fire are
\* not overslept
Tick ==
    /\ run.pc \in {"reading", "waiting"}
    /\ run.elapsed < MaxTime
    /\ ~CanExit
    /\ ~TimerExpired
    /\ run' = [run EXCEPT !.elapsed = @ + 1,
                          !.countdown = IF run.pc = "waiting" /\ @ > 0 THEN @ - 1 ELSE @]
    /\ child' = [child EXCEPT !.left = IF child.state = "running" /\ @ > 0
                                       THEN @ - 1 ELSE @]
    /\ OnlyRun

RunNext ==
    \/ Spawn
    \/ \E st \in Streams : ChildWrite(st)
    \/ \E st \in Streams : ChildClose(st)
    \/ ChildExit
    \/ \E st \in Streams : ReadChunk(st)
    \/ \E st \in Streams : ReadEof(st)
    \/ \E st \in Streams : ReadError(st)
    \/ JoinDone
    \/ WaitDone
    \/ WaitError
    \/ TimeoutFire
    \/ Tick

----------------------------------------------------------------------------
(* Locating and fetching the binary: constants.rs, validation.rs and       *)
(* parser.rs.  A path is its text; a directory's text ends with "/".       *)

BROWSER_LIST == << <<"c", "h", "r", "o", "m", "e">>, <<"f", "i", "r", "e", "f", "o", "x">>, <<"e", "d", "g", "e">>, <<"s", "a", "f", "a", "r", "i">> >>
ARCHITECTURE_LIST == << <<"x", "6", "4">>, <<"a", "r", "m", "6", "4">> >>
PLATFORM_LIST == << <<"l", "i", "n", "u", "x">>, <<"w", "i", "n", "d", "o", "w", "s">>, <<"m", "a", "c", "o", "s">> >>

BINARY_SEARCH_PATHS ==
    << <<"/", "u", "s", "r", "/", "l", "o", "c", "a", "l", "/", "b", "i", "n", "/">>, <<"/", "u", "s", "r", "/", "b", "i", "n", "/">>, <<"/", "b", "i", "n", "/">>, <<"/", "s", "b", "i", "n", "/">>, <<"/", "u", "s", "r", "/", "s", "b", "i", "n", "/">>,
       <<"/", "u", "s", "r", "/", "l", "o", "c", "a", "l", "/", "s", "b", "i", "n", "/">>, <<".", "/", "b", "i", "n", "a", "r", "i", "e", "s", "/">>, <<".", "/">>, <<".", ".", "/">>, <<".", ".", "/", ".", ".", "/">> >>

CurlImpersonate == <<"c", "u", "r", "l", "-", "i", "m", "p", "e", "r", "s", "o", "n", "a", "t", "e">>

BINARY_PATTERNS ==
    << CurlImpersonate, <<"c", "u", "r", "l", "-", "i", "m", "p", "e", "r", "s", "o", "n", "a", "t", "e", ".", "e", "x", "e">>, <<"c", "u", "r", "l", "_", "c", "h", "r", "o", "m", "e">>, <<"c", "u", "r", "l", "_", "f", "i", "r", "e", "f", "o", "x">>,
       <<"c", "u", "r", "l", "_", "e", "d", "g", "e">>, <<"c", "u", "r", "l", "_", "s", "a", "f", "a", "r", "i">> >>

Range(seq) == {seq[i] : i \in 1..Len(seq)}

Err(kind, value) == [ok |-> FALSE, err |-> kind, value |-> value]
Ok(value) == [ok |-> TRUE, err |-> "", value |-> value]

\* a validation that does not look at the platform
validate_descriptor_skips_platform(descriptor) ==
    IF IsSome(descriptor.browser) /\ Unwrap(descriptor.browser) \notin Range(BROWSER_LIST)
    THEN Err("UnsupportedBrowser", Unwrap(descriptor.browser))
    ELSE IF IsSome(descriptor.architecture)
            /\ Unwrap(descriptor.architecture) \notin Range(ARCHITECTURE_LIST)
    THEN Err("UnsupportedArchitecture", Unwrap(descriptor.architecture))
    ELSE Ok(<<>>)

\* validation.rs 5-39
validate_descriptor(descriptor) ==
    IF IsSome(descriptor.browser) /\ Unwrap(descriptor.browser) \notin Range(BROWSER_LIST)
    THEN Err("UnsupportedBrowser", Unwrap(descriptor.browser))
    ELSE IF IsSome(descriptor.architecture)
            /\ Unwrap(descriptor.architecture) \notin Range(ARCHITECTURE_LIST)
    THEN Err("UnsupportedArchitecture", Unwrap(descriptor.architecture))
    ELSE IF IsSome(descriptor.platform)
            /\ Unwrap(descriptor.platform) \notin Range(PLATFORM_LIST)
    THEN Err("UnsupportedPlatform", Unwrap(descriptor.platform))
    ELSE Ok(<<>>)

\* parser.rs 12-37: sys is the build's std::env::consts
get_system_info(sys) ==
    IF sys.arch \notin {<<"x", "8", "6", "_", "6", "4">>, <<"a", "a", "r", "c", "h", "6", "4">>}
    THEN Err("UnsupportedArchitecture", sys.arch)
    ELSE IF sys.os \notin {<<"l", "i", "n", "u", "x">>, <<"w", "i", "n", "d", "o", "w", "s">>, <<"m", "a", "c", "o", "s">>}
    THEN Err("UnsupportedPlatform", sys.os)
    ELSE Ok([architecture |-> IF sys.arch = <<"x", "8", "6", "_", "6", "4">> THEN <<"x", "6", "4">> ELSE <<"a", "r", "m", "6", "4">>,
             platform |-> sys.os])

\* parser.rs 40-47: the digits of the text, parsed as u32, 0 when that fails
extract_version_number(filename) ==
    LET digits == SelectSeq(filename, LAMBDA c : c \in Digits)
        parsed == ParseUnsigned(digits, U32MaxDigits)
    IN  IF parsed = <<>> THEN Zero ELSE parsed

\* parser.rs 50-56
get_binaries_dir(sys) ==
    IF IsSome(sys.home) THEN Unwrap(sys.home) \o <<"/", ".", "c", "u", "i", "m", "p", "/", "b", "i", "n", "a", "r", "i", "e", "s", "/">>
    ELSE <<".", "/", "b", "i", "n", "a", "r", "i", "e", "s", "/">>

\* cfg(unix)
IsUnix(sys) == sys.os \in {<<"l", "i", "n", "u", "x">>, <<"m", "a", "c", "o", "s">>}

PathOf(e) == e.dir \o e.name

\* Path::exists
Exists(files, path) == \E e \in files.entries : PathOf(e) = path
DirExists(files, dir) == dir \in files.dirs

\* parser.rs 59-78 and cuimp.rs 76-97
is_binary_executable(files, sys, path) ==
    \E e \in files.entries :
        /\ PathOf(e) = path
        /\ e.kind = "file"
        /\ IsUnix(sys) => e.exec

\* parser.rs 81-90: chmod 755 under unix, nothing elsewhere
make_executable(files, sys, path) ==
    IF IsUnix(sys)
    THEN [files EXCEPT !.entries =
             {IF PathOf(e) = path THEN [e EXCEPT !.exec = TRUE] ELSE e : e \in files.entries}]
    ELSE files

\* str::replace
RECURSIVE JoinWith(_, _)
JoinWith(parts, sep) ==
    IF Len(parts) = 1 THEN parts[1]
    ELSE parts[1] \o sep \o JoinWith(Tail(parts), sep)

Replace(s, from, to) == JoinWith(SplitStr(s, from), to)

\* every order in which read_dir can yield the entries of S
Listings(S) ==
    {l \in [1..Cardinality(S) -> S] : \A i, j \in 1..Cardinality(S) : l[i] = l[j] => i = j}

\* the comparator of parser.rs 157-161 and 285-289 is ver_b.cmp(&ver_a) on
\* the full path text; slice::sort_by is stable
RECURSIVE InsertByVersion(_, _)
InsertByVersion(sorted, x) ==
    IF sorted = <<>> THEN <<x>>
    ELSE IF NumLess(extract_version_number(Head(sorted)), extract_version_number(x))
         THEN <<x>> \o sorted
         ELSE <<Head(sorted)>> \o InsertByVersion(Tail(sorted), x)

RECURSIVE SortFrom(_, _)
SortFrom(sorted, rest) ==
    IF rest = <<>> THEN sorted
    ELSE SortFrom(InsertByVersion(sorted, Head(rest)), Tail(rest))

\* matches.sort_by(..): highest version first, equal versions in listing order
sort_by_version(matches) == SortFrom(<<>>, matches)

\* parser.rs 103-123
PatternsFor(browser) ==
    IF IsSome(browser)
    THEN LET b == Unwrap(browser) IN
         SelectSeq(BINARY_PATTERNS,
                   LAMBDA pattern :
                       IF b \in {<<"c", "h", "r", "o", "m", "e">>, <<"f", "i", "r", "e", "f", "o", "x">>, <<"e", "d", "g", "e">>, <<"s", "a", "f", "a", "r", "i">>}
                       THEN Contains(pattern, b) \/ pattern = CurlImpersonate
                       ELSE pattern = CurlImpersonate)
    ELSE BINARY_PATTERNS

\* parser.rs 143-152: the entries of a directory a wildcard pattern selects
WildcardMatches(files, sys, dir, pattern) ==
    {e \in files.entries :
        /\ e.dir = dir
        /\ Contains(e.name, Replace(Replace(pattern, <<"*">>, <<".", "*">>), <<".", "*">>, <<>>))
        /\ is_binary_executable(files, sys, PathOf(e))}

\* parser.rs 130-166: the patterns tried in one directory; the set of paths
\* the loop can return, {None} when it returns nothing
RECURSIVE FindInDirectory(_, _, _, _)
FindInDirectory(files, sys, dir, patterns) ==
    IF patterns = <<>> THEN {None}
    ELSE LET pattern == Head(patterns) IN
         IF is_binary_executable(files, sys, dir \o pattern) THEN {Some(dir \o pattern)}
         ELSE IF Contains(pattern, <<"*">>)
                 /\ WildcardMatches(files, sys, dir, pattern) # {}
         THEN {Some(sort_by_version([i \in DOMAIN l |-> PathOf(l[i])])[1])
               : l \in Listings(WildcardMatches(files, sys, dir, pattern))}
         ELSE FindInDirectory(files, sys, dir, Tail(patterns))

\* parser.rs 125-169
RECURSIVE FindInPaths(_, _, _, _)
FindInPaths(files, sys, search_paths, patterns) ==
    IF search_paths = <<>> THEN {None}
    ELSE IF ~DirExists(files, Head(search_paths))
         THEN FindInPaths(files, sys, Tail(search_paths), patterns)
         ELSE LET found == FindInDirectory(files, sys, Head(search_paths), patterns) IN
              IF found # {None} THEN found
              ELSE FindInPaths(files, sys, Tail(search_paths), patterns)

\* a search that looks into the cache directory last
find_existing_binary_cache_last(files, sys, browser) ==
    FindInPaths(files, sys, BINARY_SEARCH_PATHS \o <<get_binaries_dir(sys)>>,
                PatternsFor(browser))

\* parser.rs 93-170: the paths Locate can return
find_existing_binary(files, sys, browser) ==
    FindInPaths(files, sys, <<get_binaries_dir(sys)>> \o BINARY_SEARCH_PATHS,
                PatternsFor(browser))

----------------------------------------------------------------------------
(* Fetch and the locate-or-fetch orchestration: connector.rs, parser.rs.   *)
(* net is what the network answers during one call: the result of          *)
(* get_latest_release and the archive the download yields.  An operation   *)
(* that lists a directory is given as the set of its possible outcomes,    *)
(* one per listing order; an outcome is [result, files, events].           *)

Event(name, arg) == [e |-> name, arg |-> arg]

Outcome(result, files, events) == [result |-> result, files |-> files, events |-> events]

BinaryInfo(binary_path, is_downloaded, version) ==
    [binary_path |-> binary_path, is_downloaded |-> is_downloaded, version |-> version]

\* str::trim_start_matches(c)
RECURSIVE TrimStartMatches(_, _)
TrimStartMatches(s, c) ==
    IF s # <<>> /\ Head(s) = c THEN TrimStartMatches(Tail(s), c) ELSE s

Latest == <<"l", "a", "t", "e", "s", "t">>

\* parser.rs 199-214
AssetName(latest_version, architecture, platform) ==
    IF platform = <<"l", "i", "n", "u", "x">>
    THEN <<"c", "u", "r", "l", "-", "i", "m", "p", "e", "r", "s", "o", "n", "a", "t", "e", "-">> \o latest_version \o <<".">>
         \o (IF architecture = <<"x", "6", "4">> THEN <<"x", "8", "6", "_", "6", "4">> ELSE <<"a", "a", "r", "c", "h", "6", "4">>)
         \o <<"-", "l", "i", "n", "u", "x", "-", "g", "n", "u", ".", "t", "a", "r", ".", "g", "z">>
    ELSE <<"c", "u", "r", "l", "-", "i", "m", "p", "e", "r", "s", "o", "n", "a", "t", "e", "-">> \o latest_version \o <<".">> \o architecture \o <<"-">>
         \o platform \o <<".", "t", "a", "r", ".", "g", "z">>

\* parser.rs 216-219
DownloadUrl(latest_version, asset_name) ==
    <<"h", "t", "t", "p", "s", ":", "/", "/", "g", "i", "t", "h", "u", "b", ".", "c", "o", "m", "/", "l", "e", "x", "i", "f", "o", "r", "e", "s", "t", "/", "c", "u", "r", "l", "-", "i", "m", "p", "e", "r", "s", "o", "n", "a", "t", "e", "/", "r", "e", "l", "e", "a", "s", "e", "s", "/", "d", "o", "w", "n", "l", "o", "a", "d", "/">>
    \o latest_version \o <<"/">> \o asset_name

\* parser.rs 249
TempFileName(browser, architecture, platform) ==
    browser \o <<"-">> \o architecture \o <<"-">> \o platform \o <<".", "t", "a", "r", ".", "g", "z">>

\* fs::write: create or replace a regular file
WriteFile(files, dir, name, exec) ==
    [files EXCEPT !.entries =
        {e \in files.entries : PathOf(e) # dir \o name}
        \cup {[dir |-> dir, name |-> name, kind |-> "file", exec |-> exec]}]

\* Archive::unpack: every member lands in dir with its stored mode
RECURSIVE Unpack(_, _, _)
Unpack(files, dir, members) ==
    IF members = {} THEN files
    ELSE LET m == CHOOSE x \in members : TRUE IN
         Unpack(WriteFile(files, dir, m.name, m.exec), dir, members \ {m})

\* fs::remove_file
RemoveFile(files, path) ==
    [files EXCEPT !.entries = {e \in files.entries : PathOf(e) # path}]

\* parser.rs 173-315
download_and_extract_binary(files, sys, net, browser, architecture, platform, version) ==
    LET called == <<Event("download_and_extract_binary", browser)>> IN
    IF browser \notin Range(BROWSER_LIST)
    THEN {Outcome(Err("UnsupportedBrowser", browser), files, called)}
    ELSE IF architecture \notin Range(ARCHITECTURE_LIST)
    THEN {Outcome(Err("UnsupportedArchitecture", architecture), files, called)}
    ELSE IF platform \notin Range(PLATFORM_LIST)
    THEN {Outcome(Err("UnsupportedPlatform", platform), files, called)}
    ELSE IF ~net.latest.ok
    THEN {Outcome(net.latest, files,
                  called \o <<Event("get_latest_release", <<>>)>>)}
    ELSE
    LET latest_version == net.latest.value
        actual_version == IF version = Latest THEN TrimStartMatches(latest_version, "v")
                          ELSE TrimStartMatches(version, "v")
        download_url == DownloadUrl(latest_version,
                                    AssetName(latest_version, architecture, platform))
        events == called \o <<Event("get_latest_release", <<>>),
                              Event("download", download_url)>>
        binaries_dir == get_binaries_dir(sys)
        temp_file == TempFileName(browser, architecture, platform)
        written == WriteFile([files EXCEPT !.dirs = @ \cup {binaries_dir}],
                             binaries_dir, temp_file, FALSE)
        unpacked == RemoveFile(Unpack(written, binaries_dir, net.archive.members),
                               binaries_dir \o temp_file)
        binary_path == binaries_dir \o CurlImpersonate
        matches == {e \in unpacked.entries :
                       e.dir = binaries_dir /\ Contains(e.name, <<"c", "u", "r", "l", "_">> \o browser)}
    IN  IF net.archive.status = "http_error"
        THEN {Outcome(Err("DownloadFailed", download_url), files, events)}
        ELSE IF net.archive.status = "corrupt"
        THEN {Outcome(Err("ExtractionFailed", temp_file), written, events)}
        ELSE IF Exists(unpacked, binary_path)
        THEN {Outcome(Ok(BinaryInfo(binary_path, TRUE, Some(actual_version))),
                      make_executable(unpacked, sys, binary_path), events)}
        ELSE IF matches # {}
        THEN {LET browser_binary_path ==
                      sort_by_version([i \in DOMAIN l |-> PathOf(l[i])])[1] IN
              Outcome(Ok(BinaryInfo(browser_binary_path, TRUE, Some(actual_version))),
                      make_executable(unpacked, sys, browser_binary_path), events)
              : l \in Listings(matches)}
        ELSE {Outcome(Err("BinaryNotFound", binary_path), unpacked, events)}

Chrome == <<"c", "h", "r", "o", "m", "e">>
Unknown == <<"u", "n", "k", "n", "o", "w", "n">>

\* parser.rs 328-340: Locate found a binary
ExistingInfo(existing_binary) ==
    LET version_str == extract_version_number(existing_binary) IN
    BinaryInfo(existing_binary, FALSE,
               IF version_str # Zero THEN Some(version_str) ELSE Some(Unknown))

\* an orchestration that fetches whatever Locate returned
parse_descriptor_fetch_always(files, sys, net, descriptor) ==
    LET called == <<Event("parse_descriptor", <<>>)>> IN
    IF ~validate_descriptor(descriptor).ok
    THEN {Outcome(validate_descriptor(descriptor), files, called)}
    ELSE IF ~get_system_info(sys).ok
    THEN {Outcome(get_system_info(sys), files, called)}
    ELSE
    LET architecture == get_system_info(sys).value.architecture
        platform == get_system_info(sys).value.platform
        browser == IF IsSome(descriptor.browser) THEN Unwrap(descriptor.browser) ELSE Chrome
        version == IF IsSome(descriptor.version) THEN Unwrap(descriptor.version) ELSE Latest
    IN  UNION {
          {[o EXCEPT !.events =
                called \o <<Event("find_existing_binary",
                                  IF IsSome(existing_binary) THEN Unwrap(existing_binary)
                                  ELSE <<>>)>> \o @]
           : o \in download_and_extract_binary(files, sys, net, browser,
                                               architecture, platform, version)}
          : existing_binary \in find_existing_binary(files, sys, Some(browser)) }

\* parser.rs 318-349
parse_descriptor(files, sys, net, descriptor) ==
    LET called == <<Event("parse_descriptor", <<>>)>> IN
    IF ~validate_descriptor(descriptor).ok
    THEN {Outcome(validate_descriptor(descriptor), files, called)}
    ELSE IF ~get_system_info(sys).ok
    THEN {Outcome(get_system_info(sys), files, called)}
    ELSE
    LET architecture == get_system_info(sys).value.architecture
        platform == get_system_info(sys).value.platform
        browser == IF IsSome(descriptor.browser) THEN Unwrap(descriptor.browser) ELSE Chrome
        version == IF IsSome(descriptor.version) THEN Unwrap(descriptor.version) ELSE Latest
    IN  UNION {
          IF IsSome(existing_binary)
          THEN {Outcome(Ok(ExistingInfo(Unwrap(existing_binary))), files,
                        called \o <<Event("find_existing_binary", Unwrap(existing_binary))>>)}
          ELSE {[o EXCEPT !.events =
                              called \o <<Event("find_existing_binary", <<>>)>> \o @]
                : o \in download_and_extract_binary(files, sys, net, browser,
                                                    architecture, platform, version)}
          : existing_binary \in find_existing_binary(files, sys, Some(browser)) }

----------------------------------------------------------------------------
(* The session: cuimp.rs.                                                   *)

MaxResolves == 2    \* consecutive verify_binary calls
MaxOthers == 1      \* setter calls and filesystem changes by others

Descriptor(browser, version, architecture, platform) ==
    [browser |-> browser, version |-> version, architecture |-> architecture,
     platform |-> platform]

DefaultDescriptor == Descriptor(None, None, None, None)

\* cuimp.rs 17-34
CuimpNew(options) ==
    LET descriptor == IF IsSome(options.descriptor) THEN Unwrap(options.descriptor)
                      ELSE DefaultDescriptor
    IN  IF (IsSome(descriptor.browser) \/ IsSome(descriptor.version)
            \/ IsSome(descriptor.architecture) \/ IsSome(descriptor.platform))
           /\ ~validate_descriptor(descriptor).ok
        THEN validate_descriptor(descriptor)
        ELSE Ok([descriptor |-> descriptor, path |-> options.path, binary_info |-> None])

\* a verify_binary that returns the cached path without looking at the file
verify_binary_trusts_cache(self, files, sys, net) ==
    IF IsSome(self.path)
    THEN {[result |-> Ok(Unwrap(self.path)), self |-> self, files |-> files,
           events |-> <<>>]}
    ELSE { IF ~o.result.ok
           THEN [result |-> o.result, self |-> self, files |-> o.files,
                 events |-> o.events]
           ELSE LET binary_path == o.result.value.binary_path
                    with_info == [self EXCEPT !.binary_info = Some(o.result.value)]
                IN  IF ~is_binary_executable(o.files, sys, binary_path)
                    THEN [result |-> Err("BinaryNotExecutable", binary_path),
                          self |-> with_info, files |-> o.files, events |-> o.events]
                    ELSE [result |-> Ok(binary_path),
                          self |-> [with_info EXCEPT !.path = Some(binary_path)],
                          files |-> o.files, events |-> o.events]
           : o \in parse_descriptor(files, sys, net, self.descriptor) }

\* a session that does not keep the path it resolved
verify_binary_no_store(self, files, sys, net) ==
    IF IsSome(self.path) /\ is_binary_executable(files, sys, Unwrap(self.path))
    THEN {[result |-> Ok(Unwrap(self.path)), self |-> self, files |-> files,
           events |-> <<>>]}
    ELSE { IF ~o.result.ok
           THEN [result |-> o.result, self |-> self, files |-> o.files,
                 events |-> o.events]
           ELSE LET binary_path == o.result.value.binary_path
                    with_info == [self EXCEPT !.binary_info = Some(o.result.value)]
                IN  IF ~is_binary_executable(o.files, sys, binary_path)
                    THEN [result |-> Err("BinaryNotExecutable", binary_path),
                          self |-> with_info, files |-> o.files, events |-> o.events]
                    ELSE [result |-> Ok(binary_path), self |-> with_info,
                          files |-> o.files, events |-> o.events]
           : o \in parse_descriptor(files, sys, net, self.descriptor) }

\* cuimp.rs 37-73: the outcomes of verify_binary, each with the session it
\* leaves behind
verify_binary(self, files, sys, net) ==
    IF IsSome(self.path) /\ is_binary_executable(files, sys, Unwrap(self.path))
    THEN {[result |-> Ok(Unwrap(self.path)), self |-> self, files |-> files,
           events |-> <<>>]}
    ELSE { IF ~o.result.ok
           THEN [result |-> o.result, self |-> self, files |-> o.files,
                 events |-> o.events]
           ELSE LET binary_path == o.result.value.binary_path
                    with_info == [self EXCEPT !.binary_info = Some(o.result.value)]
                IN  IF ~is_binary_executable(o.files, sys, binary_path)
                    THEN [result |-> Err("BinaryNotExecutable", binary_path),
                          self |-> with_info, files |-> o.files, events |-> o.events]
                    ELSE [result |-> Ok(binary_path),
                          self |-> [with_info EXCEPT !.path = Some(binary_path)],
                          files |-> o.files, events |-> o.events]
           : o \in parse_descriptor(files, sys, net, self.descriptor) }

\* a setter that forgets the cached path and info before it validates
set_descriptor_forgets_first(self, descriptor) ==
    IF ~validate_descriptor(descriptor).ok
    THEN [result |-> validate_descriptor(descriptor),
          self |-> [self EXCEPT !.path = None, !.binary_info = None]]
    ELSE [result |-> Ok(<<>>),
          self |-> [self EXCEPT !.descriptor = descriptor, !.path = None,
                                !.binary_info = None]]

\* a setter that replaces the descriptor and keeps the cached path
set_descriptor_keep_path(self, descriptor) ==
    IF ~validate_descriptor(descriptor).ok
    THEN [result |-> validate_descriptor(descriptor), self |-> self]
    ELSE [result |-> Ok(<<>>),
          self |-> [self EXCEPT !.descriptor = descriptor, !.binary_info = None]]

\* cuimp.rs 132-138
set_descriptor(self, descriptor) ==
    IF ~validate_descriptor(descriptor).ok
    THEN [result |-> validate_descriptor(descriptor), self |-> self]
    ELSE [result |-> Ok(<<>>),
          self |-> [self EXCEPT !.descriptor = descriptor, !.path = None,
                                !.binary_info = None]]

\* cuimp.rs 141-144
set_binary_path(self, path) ==
    [self EXCEPT !.path = Some(path), !.binary_info = None]

\* What the model remembers of the session's operations:
\*   last    the last operation: its name, result, events, the session's
\*           path before it, and (after) the operation that preceded it;
\*   streak  the run of verify_binary calls since the last other operation
\*           or filesystem change: how many, the result of the first, whether
\*           the first found an executable cached path, and how many of them
\*           entered parse_descriptor;
\*   fresh   no other operation or filesystem change since construction;
\*   others  how many setter calls and filesystem changes so far;
\*   explicit  the path the caller gave (CuimpOptions.path, set_binary_path)
\*           and no set_descriptor has discarded since.
\* last.files_before is the filesystem the operation started from.
NoStreak == [n |-> 0, first |-> NoResult, cached |-> FALSE, cycles |-> 0]

NoBefore == [op |-> "none", ok |-> FALSE, path_before |-> None]

NoHistory ==
    [last |-> [op |-> "new", result |-> NoResult, events |-> <<>>, path_before |-> None,
               files_before |-> [dirs |-> {}, entries |-> {}], after |-> NoBefore],
     streak |-> NoStreak, fresh |-> TRUE, others |-> 0, explicit |-> None]

\* a Locate/Fetch cycle is one run of parse_descriptor
Cycles(events) == IF events = <<>> THEN 0 ELSE 1

\* the last operation, as the next one remembers it
Before ==
    [op |-> hist.last.op, ok |-> hist.last.result.ok,
     path_before |-> hist.last.path_before]

\* ---- what the caller and the environment can do ----

X64Linux == [arch |-> <<"x", "8", "6", "_", "6", "4">>, os |-> <<"l", "i", "n", "u", "x">>, home |-> Some(<<"/", "h", "o", "m", "e", "/", "u", "2">>)]
Arm64Windows == [arch |-> <<"a", "a", "r", "c", "h", "6", "4">>, os |-> <<"w", "i", "n", "d", "o", "w", "s">>, home |-> None]
RiscvLinux == [arch |-> <<"r", "i", "s", "c", "v", "6", "4">>, os |-> <<"l", "i", "n", "u", "x">>, home |-> Some(<<"/", "h", "o", "m", "e", "/", "u", "2">>)]

Hosts == {X64Linux, Arm64Windows, RiscvLinux}

CacheDir == <<"/", "h", "o", "m", "e", "/", "u", "2", "/", ".", "c", "u", "i", "m", "p", "/", "b", "i", "n", "a", "r", "i", "e", "s", "/">>
UsrLocalBin == <<"/", "u", "s", "r", "/", "l", "o", "c", "a", "l", "/", "b", "i", "n", "/">>
OptDir == <<"/", "o", "p", "t", "/">>

File(dir, name, exec) == [dir |-> dir, name |-> name, kind |-> "file", exec |-> exec]

\* binaries that may be installed before or between the calls
Installable ==
    { File(UsrLocalBin, CurlImpersonate, TRUE),
      File(UsrLocalBin, <<"c", "u", "r", "l", "_", "c", "h", "r", "o", "m", "e">>, FALSE),
      File(OptDir, <<"c", "u", "r", "l">>, TRUE) }

SystemDirs == {UsrLocalBin, <<"/", "u", "s", "r", "/", "b", "i", "n", "/">>, <<".", "/">>, OptDir}

\* when the session is created, none or one of them is installed
InitialFiles ==
    { [dirs |-> SystemDirs \cup {e.dir : e \in S}, entries |-> S]
      : S \in {{}} \cup {{e} : e \in Installable} }

Descriptors ==
    { DefaultDescriptor,
      Descriptor(Some(<<"f", "i", "r", "e", "f", "o", "x">>), Some(<<"v", "1", ".", "1", ".", "0">>), None, None),
      Descriptor(Some(<<"o", "p", "e", "r", "a">>), None, None, None) }

ExplicitPaths == {PathOf(File(OptDir, <<"c", "u", "r", "l">>, TRUE)), PathOf(File(UsrLocalBin, <<"c", "u", "r", "l", "_", "c", "h", "r", "o", "m", "e">>, FALSE))}

OptionsSet ==
    [descriptor : {None} \cup {Some(d) : d \in Descriptors},
     path : {None} \cup {Some(p) : p \in ExplicitPaths}]

Member(name, exec) == [name |-> name, exec |-> exec]

Archives ==
    { [status |-> "ok", members |-> {Member(CurlImpersonate, TRUE)}],
      [status |-> "ok", members |-> {Member(<<"c", "u", "r", "l", "_", "c", "h", "r", "o", "m", "e", "1", "1", "0">>, FALSE),
                                     Member(<<"c", "u", "r", "l", "_", "c", "h", "r", "o", "m", "e", "1", "1", "6">>, FALSE)}],
      [status |-> "corrupt", members |-> {}],
      [status |-> "http_error", members |-> {}] }

Nets ==
    {[latest |-> Ok(<<"v", "1", ".", "2", ".", "0">>), archive |-> a] : a \in Archives}
    \cup {[latest |-> Err("HttpError", <<"G", "i", "t", "H", "u", "b", " ", "A", "P", "I", " ", "e", "r", "r", "o", "r">>), archive |-> a]
          : a \in {x \in Archives : x.status = "http_error"}}

\* cuimp.rs 37-73, 147-149: verify_binary / ensure_path
VerifyBinary ==
    /\ hist.streak.n < MaxResolves
    /\ \E net \in Nets : \E o \in verify_binary(cuimp, fs, host, net) :
        /\ cuimp' = o.self
        /\ fs' = o.files
        /\ hist' = [hist EXCEPT
               !.last = [op |-> "verify_binary", result |-> o.result,
                         events |-> o.events, path_before |-> cuimp.path,
                         files_before |-> fs, after |-> Before],
               !.streak = IF hist.streak.n = 0
                          THEN [n |-> 1, first |-> o.result,
                                cached |-> o.events = <<>>,
                                cycles |-> Cycles(o.events)]
                          ELSE [@ EXCEPT !.n = @ + 1,
                                         !.cycles = @ + Cycles(o.events)]]
    /\ UNCHANGED host
    /\ OnlyResolve

\* cuimp.rs 132-138
SetDescriptor(descriptor) ==
    /\ hist.others < MaxOthers
    /\ cuimp' = set_descriptor(cuimp, descriptor).self
    /\ hist' = [last |-> [op |-> "set_descriptor",
                          result |-> set_descriptor(cuimp, descriptor).result,
                          events |-> <<>>, path_before |-> cuimp.path,
                          files_before |-> fs, after |-> Before],
                streak |-> NoStreak, fresh |-> FALSE, others |-> hist.others + 1,
                explicit |-> IF set_descriptor(cuimp, descriptor).result.ok THEN None
                             ELSE hist.explicit]
    /\ UNCHANGED <<fs, host>>
    /\ OnlyResolve

\* cuimp.rs 141-144
SetBinaryPath(path) ==
    /\ hist.others < MaxOthers
    /\ cuimp' = set_binary_path(cuimp, path)
    /\ hist' = [last |-> [op |-> "set_binary_path", result |-> Ok(<<>>),
                          events |-> <<>>, path_before |-> cuimp.path,
                          files_before |-> fs, after |-> Before],
                streak |-> NoStreak, fresh |-> FALSE, others |-> hist.others + 1,
                explicit |-> Some(path)]
    /\ UNCHANGED <<fs, host>>
    /\ OnlyResolve

Disturbed(op) ==
    [last |-> [op |-> op, result |-> Ok(<<>>), events |-> <<>>,
               path_before |-> cuimp.path, files_before |-> fs, after |-> Before],
     streak |-> NoStreak, fresh |-> FALSE, others |-> hist.others + 1,
     explicit |-> hist.explicit]

\* someone changes the mode of a file
Chmod(e) ==
    /\ hist.others < MaxOthers
    /\ e \in fs.entries
    /\ fs' = [fs EXCEPT !.entries = (@ \ {e}) \cup {[e EXCEPT !.exec = ~e.exec]}]
    /\ hist' = Disturbed("chmod")
    /\ UNCHANGED <<cuimp, host>>
    /\ OnlyResolve

\* someone deletes a file
Remove(e) ==
    /\ hist.others < MaxOthers
    /\ e \in fs.entries
    /\ fs' = [fs EXCEPT !.entries = @ \ {e}]
    /\ hist' = Disturbed("remove")
    /\ UNCHANGED <<cuimp, host>>
    /\ OnlyResolve

ResolveNext ==
    \/ VerifyBinary
    \/ \E d \in Descriptors : SetDescriptor(d)
    \/ \E p \in ExplicitPaths : SetBinaryPath(p)
    \/ \E e \in fs.entries : Chmod(e)
    \/ \E e \in fs.entries : Remove(e)

----------------------------------------------------------------------------
(* Version-candidate selection: parser.rs 155-163 and 284-290.             *)

MaxCandidates == 3  \* files a directory listing yields

CandidateDirs == {OptDir, CacheDir}

CandidateNames ==
    { <<"c", "u", "r", "l", "_", "c", "h", "r", "o", "m", "e", "2">>, <<"c", "u", "r", "l", "_", "c", "h", "r", "o", "m", "e", "1", "0">>, <<"c", "u", "r", "l", "_", "c", "h", "r", "o", "m", "e", "1", "0", "0">>, <<"c", "u", "r", "l", "_", "c", "h", "r", "o", "m", "e", "1", "0", ".", "s", "h">>,
      <<"c", "u", "r", "l", "_", "c", "h", "r", "o", "m", "e", "4", "2", "9", "4", "9", "6", "7", "2", "9", "6">>, <<"c", "u", "r", "l", "_", "c", "h", "r", "o", "m", "e", "_", "v", "1", ".", "2", ".", "0">> }

CandidateListings ==
    UNION { Listings({[dir |-> d, name |-> n] : n \in S})
            : d \in CandidateDirs,
              S \in {T \in SUBSET CandidateNames :
                        Cardinality(T) >= 1 /\ Cardinality(T) <= MaxCandidates} }

Paths(l) == [i \in DOMAIN l |-> PathOf(l[i])]

\* matches.sort_by(..); matches[0]
select_candidate(l) == sort_by_version(Paths(l))[1]

\* parser.rs 155-163, 284-290: sort the matches, take the first; keys are
\* the values the comparator ranks the candidates by
SelectCandidate ==
    /\ listing # <<>> /\ selected = NoResult
    /\ selected' = [ok |-> TRUE, err |-> "", path |-> select_candidate(listing),
                    keys |-> [i \in DOMAIN listing |->
                                  extract_version_number(PathOf(listing[i]))]]
    /\ UNCHANGED listing
    /\ OnlySelect

----------------------------------------------------------------------------
(* Single calls of the public functions, on any input: Cuimp::new,         *)
(* set_descriptor, parse_descriptor, download_and_extract_binary and       *)
(* find_existing_binary.                                                   *)

MaxInstalled == 2   \* files present when the call is made

\* values outside the enumerated sets of constants.rs
Opera == <<"o", "p", "e", "r", "a">>
Mips == <<"m", "i", "p", "s">>
FreeBsd == <<"f", "r", "e", "e", "b", "s", "d">>

\* the descriptors a caller can build: each field absent, valid or invalid
CallDescriptors ==
    { Descriptor(b, None, a, p) :
        b \in {None, Some(Chrome), Some(Opera)},
        a \in {None, Some(<<"x", "6", "4">>), Some(Mips)},
        p \in {None, Some(<<"l", "i", "n", "u", "x">>), Some(FreeBsd)} }

\* the arguments of download_and_extract_binary, as a descriptor with every
\* field present
FetchArguments ==
    { Descriptor(Some(b), Some(Latest), Some(a), Some(p)) :
        b \in {Chrome, Opera}, a \in {<<"x", "6", "4">>, Mips}, p \in {<<"l", "i", "n", "u", "x">>, FreeBsd} }

\* the browsers find_existing_binary can be asked for
LocateBrowsers == {None, Some(Chrome), Some(<<"f", "i", "r", "e", "f", "o", "x">>), Some(Opera)}

\* what can lie in the searched directories of a host: binaries under the
\* names of the patterns, executable or not, a directory of such a name, and
\* binaries whose names carry a version after the pattern
Placeable(sys) ==
    { File(get_binaries_dir(sys), <<"c", "u", "r", "l", "_", "c", "h", "r", "o", "m", "e">>, TRUE),
      [File(get_binaries_dir(sys), CurlImpersonate, TRUE) EXCEPT !.kind = "dir"],
      File(UsrLocalBin, CurlImpersonate, TRUE),
      File(UsrLocalBin, <<"c", "u", "r", "l", "_", "f", "i", "r", "e", "f", "o", "x">>, FALSE),
      File(<<"/", "u", "s", "r", "/", "b", "i", "n", "/">>, <<"c", "u", "r", "l", "_", "f", "i", "r", "e", "f", "o", "x">>, TRUE),
      File(<<".", "/">>, <<"c", "u", "r", "l", "-", "i", "m", "p", "e", "r", "s", "o", "n", "a", "t", "e", ".", "e", "x", "e">>, TRUE),
      File(UsrLocalBin, <<"c", "u", "r", "l", "_", "c", "h", "r", "o", "m", "e", "1", "1", "0">>, TRUE),
      File(UsrLocalBin, <<"c", "u", "r", "l", "_", "c", "h", "r", "o", "m", "e", "1", "1", "6">>, TRUE) }

PlacedFiles(sys) ==
    { [dirs |-> SystemDirs \cup {e.dir : e \in S}, entries |-> S]
      : S \in {T \in SUBSET Placeable(sys) : Cardinality(T) <= MaxInstalled} }

NoCall ==
    [op |-> "none", input |-> DefaultDescriptor, result |-> NoResult,
     found |-> None, events |-> <<>>, before |-> [dirs |-> {}, entries |-> {}]]

\* a Result without its payload
Outcome0(r) == IF r.ok THEN Ok(<<>>) ELSE r

Called(op, input, result, found, events) ==
    [op |-> op, input |-> input, result |-> Outcome0(result), found |-> found,
     events |-> events, before |-> fs]

\* cuimp.rs 17-34
CallNew(descriptor) ==
    /\ call = NoCall
    /\ call' = Called("new", descriptor,
                      CuimpNew([descriptor |-> Some(descriptor), path |-> None]),
                      None, <<>>)
    /\ UNCHANGED <<fs, host>>
    /\ OnlyCall

\* cuimp.rs 132-138, on a session made by Cuimp::new(CuimpOptions::default())
CallSetDescriptor(descriptor) ==
    /\ call = NoCall
    /\ call' = Called("set_descriptor", descriptor,
                      set_descriptor(CuimpNew([descriptor |-> None, path |-> None]).value,
                                     descriptor).result,
                      None, <<>>)
    /\ UNCHANGED <<fs, host>>
    /\ OnlyCall

\* parser.rs 318-350
CallParseDescriptor(descriptor) ==
    /\ call = NoCall
    /\ \E net \in Nets : \E o \in parse_descriptor(fs, host, net, descriptor) :
        /\ call' = Called("parse_descriptor", descriptor, o.result, None, o.events)
        /\ fs' = o.files
    /\ UNCHANGED host
    /\ OnlyCall

\* parser.rs 173-315
CallFetch(arguments) ==
    /\ call = NoCall
    /\ \E net \in Nets :
       \E o \in download_and_extract_binary(fs, host, net, Unwrap(arguments.browser),
                                            Unwrap(arguments.architecture),
                                            Unwrap(arguments.platform),
                                            Unwrap(arguments.version)) :
        /\ call' = Called("download_and_extract_binary", arguments, o.result, None,
                          o.events)
        /\ fs' = o.files
    /\ UNCHANGED host
    /\ OnlyCall

\* parser.rs 93-170
CallLocate(browser) ==
    /\ call = NoCall
    /\ \E found \in find_existing_binary(fs, host, browser) :
        call' = Called("find_existing_binary", Descriptor(browser, None, None, None),
                       Ok(<<>>), found, <<>>)
    /\ UNCHANGED <<fs, host>>
    /\ OnlyCall

CallNext ==
    \/ \E d \in CallDescriptors : CallNew(d)
    \/ \E d \in CallDescriptors : CallSetDescriptor(d)
    \/ \E d \in CallDescriptors : CallParseDescriptor(d)
    \/ \E a \in FetchArguments : CallFetch(a)
    \/ \E b \in LocateBrowsers : CallLocate(b)

----------------------------------------------------------------------------
(* Two concurrent acquisitions of the same (browser, architecture,         *)
(* platform) in one cache directory: parse_descriptor step by step, on a   *)
(* unix host.  Both use the same temporary archive and unpack the same     *)
(* binary.  A file that is removed while a call has it open stays readable *)
(* and writable for that call (it is detached from the path).              *)

Procs == {1, 2}

Absent == [exists |-> FALSE, complete |-> FALSE]

\* the binary in the cache directory; owner is the call whose unpack
\* created the file that is now at the path (0: it was there before)
NoBinary == [state |-> "absent", exec |-> FALSE, owner |-> 0]
Installed == [state |-> "complete", exec |-> TRUE, owner |-> 0]

\* one call: where it is, what it returned, whether the temporary archive it
\* has open is detached from the path, whether its reading of the archive
\* was disturbed, and
\*   clobbered  the other call overwrote or removed the archive while this
\*              one was writing or unpacking it;
\*   handed     the state of the binary when this call returned its path.
RaceStart ==
    [pc |-> "start", result |-> "none", detached |-> FALSE, disturbed |-> FALSE,
     clobbered |-> FALSE, handed |-> "none"]

RaceIdle ==
    [proc |-> [p \in Procs |-> [RaceStart EXCEPT !.pc = "idle"]],
     temp |-> Absent, binary |-> NoBinary]

\* the call uses the temporary archive that is at the path
Using(q) == race.proc[q].pc \in {"writing", "unpacking"} /\ ~race.proc[q].detached

Finish(p, result, handed) ==
    [race.proc[p] EXCEPT !.pc = "done", !.result = result, !.handed = handed]

\* parser.rs 329-349 and 224-241: find_existing_binary, then the download
RaceLocate(p) ==
    /\ race.proc[p].pc = "start"
    /\ IF race.binary.state # "absent" /\ race.binary.exec
       THEN race' = [race EXCEPT !.proc[p] = Finish(p, "ok", race.binary.state)]
       ELSE race' = [race EXCEPT !.proc[p].pc = "write"]
    /\ OnlyRace

\* parser.rs 250: fs::write creates or truncates the file
RaceWriteBegin(p) ==
    /\ race.proc[p].pc = "write"
    /\ race' = [race EXCEPT
           !.temp = [exists |-> TRUE, complete |-> FALSE],
           !.proc = [q \in Procs |->
                        IF q = p THEN [@[q] EXCEPT !.pc = "writing", !.detached = FALSE]
                        ELSE IF Using(q) /\ race.temp.exists
                        THEN [@[q] EXCEPT !.clobbered = TRUE,
                                          !.disturbed = @ \/ race.proc[q].pc = "unpacking"]
                        ELSE @[q]]]
    /\ OnlyRace

\* parser.rs 250: fs::write has written all the bytes
RaceWriteEnd(p) ==
    /\ race.proc[p].pc = "writing"
    /\ race' = [race EXCEPT
           !.proc[p].pc = "unpack",
           !.temp.complete =
               IF race.proc[p].detached THEN @
               ELSE ~\E q \in Procs \ {p} : race.proc[q].pc = "writing" /\ Using(q)]
    /\ OnlyRace

\* parser.rs 254-257: the archive is opened and unpacking starts; the
\* binary is created anew, without its mode
RaceUnpackBegin(p) ==
    /\ race.proc[p].pc = "unpack"
    /\ IF ~race.temp.exists
       THEN race' = [race EXCEPT !.proc[p] = Finish(p, "IoError", "none")]
       ELSE IF ~race.temp.complete
       THEN race' = [race EXCEPT !.proc[p] = Finish(p, "ExtractionFailed", "none")]
       ELSE race' = [race EXCEPT
                !.proc[p] = [@ EXCEPT !.pc = "unpacking", !.detached = FALSE,
                                      !.disturbed = FALSE],
                !.binary = [state |-> "partial", exec |-> FALSE, owner |-> p]]
    /\ OnlyRace

\* parser.rs 257-259: unpacking ends; the binary is whole and has its mode
\* if this call's file is still the one at the path
RaceUnpackEnd(p) ==
    /\ race.proc[p].pc = "unpacking"
    /\ IF race.proc[p].disturbed
       THEN race' = [race EXCEPT !.proc[p] = Finish(p, "ExtractionFailed", "none")]
       ELSE race' = [race EXCEPT
                !.proc[p].pc = "remove",
                !.binary = IF @.owner = p
                           THEN [state |-> "complete", exec |-> TRUE, owner |-> p]
                           ELSE @]
    /\ OnlyRace

\* parser.rs 262: fs::remove_file
RaceRemoveFile(p) ==
    /\ race.proc[p].pc = "remove"
    /\ IF ~race.temp.exists
       THEN race' = [race EXCEPT !.proc[p] = Finish(p, "IoError", "none")]
       ELSE race' = [race EXCEPT
                !.temp = Absent,
                !.proc = [q \in Procs |->
                             IF q = p THEN [@[q] EXCEPT !.pc = "check"]
                             ELSE IF Using(q)
                             THEN [@[q] EXCEPT !.clobbered = TRUE, !.detached = TRUE]
                             ELSE @[q]]]
    /\ OnlyRace

\* parser.rs 265-268, 300-304: binary_path.exists()
RaceCheck(p) ==
    /\ race.proc[p].pc = "check"
    /\ IF race.binary.state = "absent"
       THEN race' = [race EXCEPT !.proc[p] = Finish(p, "BinaryNotFound", "none")]
       ELSE race' = [race EXCEPT !.proc[p].pc = "chmod"]
    /\ OnlyRace

\* parser.rs 307-314: make_executable, and the path is returned
RaceMakeExecutable(p) ==
    /\ race.proc[p].pc = "chmod"
    /\ race' = [race EXCEPT !.binary.exec = TRUE,
                            !.proc[p] = Finish(p, "ok", race.binary.state)]
    /\ OnlyRace

RaceNext ==
    \/ \E p \in Procs : RaceLocate(p)
    \/ \E p \in Procs : RaceWriteBegin(p)
    \/ \E p \in Procs : RaceWriteEnd(p)
    \/ \E p \in Procs : RaceUnpackBegin(p)
    \/ \E p \in Procs : RaceUnpackEnd(p)
    \/ \E p \in Procs : RaceRemoveFile(p)
    \/ \E p \in Procs : RaceCheck(p)
    \/ \E p \in Procs : RaceMakeExecutable(p)

----------------------------------------------------------------------------
(* The specifications.                                                      *)

DecodeIdle ==
    /\ stdout = <<>>
    /\ gen = [blocks |-> <<>>, sep |-> Separator2, body |-> <<>>]
    /\ resp = NoResult

RunIdleInit == run = RunIdle /\ child = ChildIdle

ResolveIdle ==
    /\ cuimp = [descriptor |-> DefaultDescriptor, path |-> None, binary_info |-> None]
    /\ fs = [dirs |-> {}, entries |-> {}]
    /\ host = X64Linux
    /\ hist = NoHistory

SelectIdle == listing = <<>> /\ selected = NoResult

CallIdle == call = NoCall /\ race = RaceIdle

\* the Result of parse_response::<T>, with the T it was asked for
Expecting(T, r) ==
    [f \in DOMAIN r \cup {"target"} |-> IF f = "target" THEN T ELSE r[f]]

\* client.rs 313-434: parse_response on the captured stdout
Decode ==
    /\ resp = NoResult
    /\ \E T \in Targets : \E r \in ParseResponse(T, stdout, Request) :
           resp' = Expecting(T, r)
    /\ UNCHANGED <<stdout, gen>>
    /\ OnlyDecode

DecodeInit ==
    /\ \E g \in DecodeInputs : gen = g /\ stdout = StreamOf(g)
    /\ resp = NoResult
    /\ RunIdleInit /\ ResolveIdle /\ SelectIdle /\ CallIdle

DecodeNext == Decode

SpecDecode == DecodeInit /\ [][DecodeNext]_vars

RunInit ==
    /\ \E t \in Timeouts : run = RunStart(t)
    /\ child \in Children
    /\ DecodeIdle /\ ResolveIdle /\ SelectIdle /\ CallIdle

SpecRun == RunInit /\ [][RunNext]_vars

ResolveInit ==
    /\ \E options \in OptionsSet : CuimpNew(options).ok /\ cuimp = CuimpNew(options).value
    /\ fs \in InitialFiles
    /\ host \in Hosts
    /\ hist = [NoHistory EXCEPT !.explicit = cuimp.path]
    /\ DecodeIdle /\ RunIdleInit /\ SelectIdle /\ CallIdle

SpecResolve == ResolveInit /\ [][ResolveNext]_vars

SelectInit ==
    /\ listing \in CandidateListings
    /\ selected = NoResult
    /\ DecodeIdle /\ RunIdleInit /\ ResolveIdle /\ CallIdle

SelectNext == SelectCandidate

SpecSelect == SelectInit /\ [][SelectNext]_vars

CallInit ==
    /\ host \in Hosts
    /\ fs \in PlacedFiles(host)
    /\ call = NoCall
    /\ cuimp = [descriptor |-> DefaultDescriptor, path |-> None, binary_info |-> None]
    /\ hist = NoHistory
    /\ race = RaceIdle
    /\ DecodeIdle /\ RunIdleInit /\ SelectIdle

SpecCall == CallInit /\ [][CallNext]_vars

RaceInit ==
    /\ race \in {[proc |-> [p \in Procs |-> RaceStart], temp |-> Absent, binary |-> b]
                 : b \in {NoBinary, Installed}}
    /\ call = NoCall
    /\ DecodeIdle /\ RunIdleInit /\ ResolveIdle /\ SelectIdle

SpecRace == RaceInit /\ [][RaceNext]_vars

----------------------------------------------------------------------------
(* Properties of the request executor, checked under SpecRun.              *)

\* the call has returned
Returned == run.pc = "done"

\* the child was spawned and no system call failed
PlainRun == Returned /\ child.fault = "none"

\* the child's natural runtime exceeds the configured timeout
OutlivesTimeout ==
    /\ IsSome(run.timeout_ms)
    /\ (child.natural = Never \/ child.natural > Unwrap(run.timeout_ms))

\* C1: a call with a timeout T on a child whose natural runtime exceeds T
\* returns a Timeout error and never a RunResult, also when the child keeps
\* its pipes open until it exits.
C1_TimeoutWhenChildOutlivesIt ==
    (PlainRun /\ OutlivesTimeout) => (~run.result.ok /\ run.result.err = "Timeout")

----------------------------------------------------------------------------
(* Properties of the response decoder, checked under SpecDecode.           *)

Decoded == resp # NoResult

FinalBlock == gen.blocks[Len(gen.blocks)]

\* C2: on a stream of two or more header blocks and a body, the decoded
\* status is the code of the final block's status line, whatever header
\* lines the final block carries.
C2_StatusOfFinalBlock ==
    (Decoded /\ Len(gen.blocks) >= 2 /\ resp.ok)
        => resp.status = DigitsValue(FinalBlock.status.code)

\* C3: a stream of n < 5 bytes is refused with InvalidResponse, and the
\* message holds the exact count n followed by " bytes".
C3_ShortStreamReportsItsLength ==
    (Decoded /\ Len(stdout) < 5)
        => /\ ~resp.ok
           /\ resp.err = "InvalidResponse"
           /\ Contains(resp.msg, <<"(">> \o Decimal(Len(stdout)) \o <<" ", "b", "y", "t", "e", "s", ")">>)

\* C3 witness: the four bytes "HTTP", one short of the marker, were decoded
C3_Witness ==
    /\ Decoded
    /\ stdout = <<"H", "T", "T", "P">>
    /\ resp.err = "InvalidResponse"

NoHttpFound == <<"N", "o", " ", "H", "T", "T", "P", " ", "r", "e", "s", "p", "o", "n", "s", "e", " ", "f", "o", "u", "n", "d">>

RefusedAsNoHttp ==
    /\ ~resp.ok
    /\ resp.err = "InvalidResponse"
    /\ Contains(resp.msg, NoHttpFound)

\* C4, as stated: every stream without the text "HTTP/" is refused with
\* InvalidResponse and a message that says "No HTTP response found".
C4_NoMarkerIsNoHttp ==
    (Decoded /\ ~Contains(stdout, HttpMarker)) => RefusedAsNoHttp

\* C4, amended: every stream of at least 5 bytes without the text "HTTP/" is
\* refused with InvalidResponse and a message that says "No HTTP response
\* found" (a shorter stream is refused as too short).
C4_LongNoMarkerIsNoHttp ==
    (Decoded /\ Len(stdout) >= 5 /\ ~Contains(stdout, HttpMarker)) => RefusedAsNoHttp

\* C4 witness: a stream of 5 bytes or more that holds "HTTP" but never
\* "HTTP/" was decoded
C4_Witness ==
    /\ Decoded
    /\ Len(stdout) >= 5
    /\ Contains(stdout, <<"H", "T", "T", "P">>)
    /\ ~Contains(stdout, HttpMarker)
    /\ resp.err = "InvalidResponse"

\* one block with a JSON content-type header and a body that is valid JSON
SingleJsonBlock ==
    /\ Len(gen.blocks) = 1
    /\ JsonContentType \in Range(FinalBlock.headers)
    /\ FromStr(Utf8Lossy(gen.body)).ok

\* every header line's key is in the map, with the value of the line (of the
\* last such line, when a key repeats)
HeadersKept ==
    \A i \in 1..Len(FinalBlock.headers) :
        LET h == FinalBlock.headers[i] IN
        /\ h.key \in DOMAIN resp.headers
        /\ \/ resp.headers[h.key] = h.value
           \/ \E j \in (i + 1)..Len(FinalBlock.headers) : FinalBlock.headers[j].key = h.key

\* C5: on a stream of exactly one well-formed block with a JSON content type
\* and a valid JSON body, the response has the status line's code and text,
\* every header line, the body decoded as that JSON value, and raw_body equal
\* to the bytes after the separator (the result type asked for is
\* serde_json::Value).
C5_SingleBlockDecoded ==
    (Decoded /\ SingleJsonBlock /\ resp.target = "Value")
        => /\ resp.ok
           /\ resp.status = DigitsValue(FinalBlock.status.code)
           /\ resp.status_text = FinalBlock.status.text
           /\ HeadersKept
           /\ resp.data = FromStr(Utf8Lossy(gen.body)).value
           /\ resp.raw_body = gen.body

----------------------------------------------------------------------------
(* Properties of the acquisition orchestrator, checked under SpecResolve.  *)

Resolved == hist.last.op = "verify_binary"

\* the events of the last operation with the given name
EventsNamed(name) == {i \in 1..Len(hist.last.events) : hist.last.events[i].e = name}

FetchEvents ==
    EventsNamed("download_and_extract_binary") \cup EventsNamed("get_latest_release")
    \cup EventsNamed("download")

\* Locate ran and returned a qualifying path
Located ==
    \E i \in EventsNamed("find_existing_binary") : hist.last.events[i].arg # <<>>

\* C6: in every Resolve, anything Fetch does comes after a Locate that found
\* nothing; when Locate returned a path, Fetch is not invoked and the info
\* kept has that path and is_downloaded = false.
C6_LocateBeforeFetch ==
    Resolved =>
        /\ \A i \in FetchEvents :
               \E j \in EventsNamed("find_existing_binary") :
                   j < i /\ hist.last.events[j].arg = <<>>
        /\ Located =>
               /\ FetchEvents = {}
               /\ hist.last.result.ok
               /\ IsSome(cuimp.binary_info)
               /\ ~Unwrap(cuimp.binary_info).is_downloaded
               /\ Unwrap(cuimp.binary_info).binary_path = hist.last.result.value

\* C6 witness: a Resolve in which Locate returned a path
C6_Witness == Resolved /\ Located /\ hist.last.result.ok

\* consecutive Resolve calls, the first of which succeeded
Repeated == hist.streak.n >= 1 /\ hist.streak.first.ok

\* C7, as stated: when the first Resolve of a session succeeded, further
\* Resolve calls with the descriptor and the filesystem unchanged return the
\* same path, and exactly one Locate/Fetch cycle occurs over the sequence.
C7_ExactlyOneCycle ==
    (hist.fresh /\ Repeated)
        => /\ hist.last.result = hist.streak.first
           /\ hist.streak.cycles = 1

\* C7, amended: when the first of a run of Resolve calls succeeded, further
\* calls with the descriptor and the filesystem unchanged return the same
\* path and perform no further Locate or Fetch: one cycle occurs over the
\* sequence, and none when the first call found the session's path (set by
\* the caller) executable.
C7_AtMostOneCycle ==
    Repeated
        => /\ hist.last.result = hist.streak.first
           /\ hist.streak.cycles = (IF hist.streak.cached THEN 0 ELSE 1)
           /\ hist.streak.n >= 2 => hist.last.events = <<>>

\* C7 witness: a second Resolve after a first one that ran a cycle
C7_Witness ==
    /\ Repeated
    /\ hist.streak.n >= 2
    /\ ~hist.streak.cached
    /\ hist.streak.cycles = 1

\* the last operation is the Resolve that follows a successful set_descriptor
ResolvedAfterSet ==
    /\ Resolved
    /\ hist.last.after.op = "set_descriptor"
    /\ hist.last.after.ok

\* C8: after a successful set_descriptor the session holds no path and no
\* version info, also when the path was given by the caller; the next Resolve
\* runs a fresh Locate/Fetch cycle (Locate is attempted on every supported
\* host) and returns the path of that cycle.
C8_SetDescriptorForgets ==
    /\ (hist.last.op = "set_descriptor" /\ hist.last.result.ok)
           => (cuimp.path = None /\ cuimp.binary_info = None)
    /\ ResolvedAfterSet
           => /\ hist.last.path_before = None
              /\ EventsNamed("parse_descriptor") = {1}
              /\ get_system_info(host).ok => EventsNamed("find_existing_binary") = {2}
              /\ hist.last.result.ok
                     => /\ IsSome(cuimp.binary_info)
                        /\ Unwrap(cuimp.binary_info).binary_path = hist.last.result.value

\* C8 witness: a session that held a path, then a successful set_descriptor,
\* then a Resolve that succeeded
C8_Witness ==
    /\ ResolvedAfterSet
    /\ IsSome(hist.last.after.path_before)
    /\ hist.last.result.ok

----------------------------------------------------------------------------
(* Properties of the candidate selection, checked under SpecSelect.        *)

Selected == selected # NoResult

\* the integer formed by the digits of the file's name, in order
FilenameValue(e) == StripZeros(SelectSeq(e.name, LAMBDA c : c \in Digits))

SelectedEntry == CHOOSE e \in Range(listing) : PathOf(e) = selected.path

\* C9: the candidate selected is the same in whatever order the directory
\* listing yields the candidates, and it is one with the highest
\* digit-concatenation value, also when two candidates have equal values.
C9_SelectionIgnoresOrder ==
    Selected =>
        /\ \A l \in Listings(Range(listing)) : select_candidate(l) = selected.path
        /\ \A i \in DOMAIN listing :
               ~NumLess(FilenameValue(SelectedEntry), FilenameValue(listing[i]))

\* C10: the value a candidate is ranked by is the integer formed by the
\* digits of its filename: digits elsewhere in its path do not count, and a
\* value beyond 32 bits does not become 0.
C10_RankIsFilenameDigits ==
    Selected => \A i \in DOMAIN listing : selected.keys[i] = FilenameValue(listing[i])

\* ---- C11 ----

\* the cached path the call started with no longer passed the check
StaleBefore ==
    /\ IsSome(hist.last.path_before)
    /\ ~is_binary_executable(hist.last.files_before, host, Unwrap(hist.last.path_before))

\* C11: every path verify_binary returns is, when the call ends, an existing
\* regular file with the execute permission; a cached path that stopped
\* passing that check is not handed back as it is: the call goes through
\* parse_descriptor again (and returns what that yields, or an error).
C11_ReturnedPathIsExecutable ==
    Resolved =>
        /\ hist.last.result.ok =>
               is_binary_executable(fs, host, hist.last.result.value)
        /\ StaleBefore => hist.last.events # <<>>
        /\ hist.last.events = <<>> =>
               /\ hist.last.result.ok
               /\ hist.last.result.value = Unwrap(hist.last.path_before)
               /\ fs = hist.last.files_before

\* a call that found its cached path stale after a chmod or a removal
C11_Witness ==
    /\ Resolved
    /\ hist.last.after.op \in {"chmod", "remove"}
    /\ StaleBefore
    /\ hist.last.events # <<>>

\* ---- C12 ----

\* C12: while the session holds a path its caller gave, verify_binary never
\* runs parse_descriptor (no Locate, no Fetch): it returns that path when it
\* passes the executability check and fails otherwise, and the session's path
\* stays the one the caller gave.
C12_ExplicitPathBypassesAcquisition ==
    (Resolved /\ IsSome(hist.explicit)) =>
        /\ hist.last.events = <<>>
        /\ hist.last.result.ok => hist.last.result.value = Unwrap(hist.explicit)
        /\ cuimp.path = hist.explicit

\* ---- C13 ----

\* the download the last verify_binary made, when parse_descriptor returned
\* the info of a fetched binary
Fetched ==
    /\ Resolved
    /\ EventsNamed("download") # {}
    /\ IsSome(cuimp.binary_info)
    /\ Unwrap(cuimp.binary_info).is_downloaded

\* the URL of the release asset of version tag t for this host
AssetUrlOf(t) ==
    DownloadUrl(t, AssetName(t, get_system_info(host).value.architecture,
                             get_system_info(host).value.platform))

\* C13: the version in the info of a fetched binary is the version of the
\* asset that was downloaded: the URL requested is the asset URL built from
\* that version (as reported, or with its leading v).
C13_ReportedVersionIsDownloaded ==
    Fetched =>
        \A i \in EventsNamed("download") :
            hist.last.events[i].arg \in
                { AssetUrlOf(t) : t \in {Unwrap(Unwrap(cuimp.binary_info).version),
                                         <<"v">> \o Unwrap(Unwrap(cuimp.binary_info).version)} }

\* ---- C14 ----

\* the descriptor asks for a version other than "latest"
ExplicitVersion ==
    IsSome(cuimp.descriptor.version) /\ Unwrap(cuimp.descriptor.version) # <<"l", "a", "t", "e", "s", "t">>

\* C14: with an explicit version the release-metadata endpoint is not
\* queried, and its failure is not the failure of the call.
C14_NoLookupForExplicitVersion ==
    (Resolved /\ ExplicitVersion) =>
        /\ EventsNamed("get_latest_release") = {}
        /\ ~hist.last.result.ok => hist.last.result.err # "HttpError"

\* ---- C15 ----

\* the temporary archive of the session's browser on this host
TempArchive ==
    get_binaries_dir(host)
    \o TempFileName(IF IsSome(cuimp.descriptor.browser)
                    THEN Unwrap(cuimp.descriptor.browser) ELSE Chrome,
                    get_system_info(host).value.architecture,
                    get_system_info(host).value.platform)

\* C15: once the archive was downloaded and written to the temporary file,
\* that file is gone when the call returns, whatever the outcome.
C15_TempArchiveRemoved ==
    (Resolved /\ EventsNamed("download") # {}
     /\ (~hist.last.result.ok => hist.last.result.err # "DownloadFailed")) =>
        ~Exists(fs, TempArchive)

\* ---- C18 ----

\* the call has returned, nothing failed in spawning, reading or waiting, and
\* the child ended by itself
ChildTerminated ==
    run.pc = "done" /\ child.fault = "none" /\ child.state = "exited"

\* everything the child wrote to the stream, in the order written
Written(st) == ChunksOf(st, child.wrote[st])

\* C18: when the child was spawned, its streams were read and it ended by
\* itself, run_binary returns a RunResult with the child's exit code (absent
\* when a signal ended it) and all it wrote to stdout and stderr, whatever
\* the exit code.
C18_ExitStatusIsNotAFailure ==
    ChildTerminated =>
        /\ run.result.ok
        /\ run.result.exit_code = child.code
        /\ run.result.stdout = Written("stdout")
        /\ run.result.stderr = Written("stderr")
        /\ \A st \in Streams : child.todo[st] = <<>> /\ child.pipe[st] = <<>>

\* a child that wrote to stdout and exited with code 1
C18_Witness ==
    /\ ChildTerminated
    /\ child.code = Some(1)
    /\ run.result.ok
    /\ run.result.stdout # <<>>

\* ---- C19 ----

\* the call has a timeout and nothing fails in spawning, reading or waiting
TimedRun == IsSome(run.timeout_ms) /\ child.fault = "none"

\* C19: a call with a timeout of T ms is over once T ms have passed: the
\* countdown runs while the pipes are drained, so the call is never still
\* reading or waiting after it.
C19_ReturnsByTimeout ==
    (TimedRun /\ run.pc \in {"reading", "waiting"}) =>
        run.elapsed <= Unwrap(run.timeout_ms)

----------------------------------------------------------------------------
(* Properties of single calls, checked under SpecCall.                     *)

\* ---- C17 ----

\* the errors that name a field of the descriptor (or argument) that is
\* present and outside its enumerated set
Rejections(d) ==
    (IF IsSome(d.browser) /\ Unwrap(d.browser) \notin Range(BROWSER_LIST)
     THEN {Err("UnsupportedBrowser", Unwrap(d.browser))} ELSE {})
    \cup
    (IF IsSome(d.architecture) /\ Unwrap(d.architecture) \notin Range(ARCHITECTURE_LIST)
     THEN {Err("UnsupportedArchitecture", Unwrap(d.architecture))} ELSE {})
    \cup
    (IF IsSome(d.platform) /\ Unwrap(d.platform) \notin Range(PLATFORM_LIST)
     THEN {Err("UnsupportedPlatform", Unwrap(d.platform))} ELSE {})

\* the call took a descriptor or the arguments of Fetch
TakesDescriptor ==
    call.op \in {"new", "set_descriptor", "parse_descriptor", "download_and_extract_binary"}

\* the events of the call with the given name
CallEvents(name) == {i \in 1..Len(call.events) : call.events[i].e = name}

\* C17: Cuimp::new, set_descriptor, parse_descriptor and
\* download_and_extract_binary, given a browser, architecture or platform
\* that is present and not in its enumerated set, fail with the Unsupported*
\* error of such a field, and before that nothing was searched, requested
\* from the network or written.
C17_InvalidFieldFailsFast ==
    (TakesDescriptor /\ Rejections(call.input) # {}) =>
        /\ call.result \in Rejections(call.input)
        /\ CallEvents("find_existing_binary") = {}
        /\ CallEvents("get_latest_release") = {}
        /\ CallEvents("download") = {}
        /\ fs = call.before

\* download_and_extract_binary refused a platform that is not in the list,
\* with a network that would have answered
C17_Witness ==
    /\ call.op = "download_and_extract_binary"
    /\ call.input.platform = Some(FreeBsd)
    /\ call.input.browser = Some(Chrome)
    /\ call.result = Err("UnsupportedPlatform", FreeBsd)

\* ---- C20 ----

\* the directories in the order of priority: the cache directory, the
\* system directories, the relative fallbacks
SearchOrder == <<get_binaries_dir(host)>> \o BINARY_SEARCH_PATHS

\* the qualifying candidates of a directory: regular files with the execute
\* permission (where the host has one) named by a pattern eligible for the
\* browser asked for
Qualifying(dir) ==
    { PathOf(e) : e \in
        { x \in fs.entries :
            /\ x.dir = dir
            /\ x.kind = "file"
            /\ IsUnix(host) => x.exec
            /\ x.name \in Range(PatternsFor(call.input.browser)) } }

\* the positions in the order of the directories that hold one
Holders == {i \in DOMAIN SearchOrder : Qualifying(SearchOrder[i]) # {}}

\* C20: find_existing_binary returns a qualifying candidate of the first
\* directory, in the order of priority, that holds one, and returns nothing
\* only when no directory holds one.
C20_FirstDirectoryWins ==
    call.op = "find_existing_binary" =>
        IF Holders = {} THEN call.found = None
        ELSE /\ IsSome(call.found)
             /\ Unwrap(call.found) \in
                    Qualifying(SearchOrder[CHOOSE i \in Holders : \A j \in Holders : i <= j])

\* two directories hold a qualifying candidate
C20_Witness ==
    /\ call.op = "find_existing_binary"
    /\ Cardinality({SearchOrder[i] : i \in Holders}) >= 2
    /\ IsSome(call.found)
    /\ Unwrap(call.found) \in Qualifying(get_binaries_dir(host))

----------------------------------------------------------------------------
(* Properties of two concurrent acquisitions, checked under SpecRace.      *)

\* ---- C16 ----

\* C16: in every interleaving of the two calls, neither returns the path of
\* a binary that is only partly written, and neither has its temporary
\* archive overwritten or removed by the other while it is writing or
\* unpacking it.
C16_ConcurrentAcquisitionsAreSafe ==
    \A p \in Procs :
        /\ race.proc[p].result = "ok" => race.proc[p].handed = "complete"
        /\ ~race.proc[p].clobbered

\* ---- C21 ----

\* the executable regular files of a directory whose names match the
\* pattern of the browser asked for (curl_<browser>, any version suffix)
BrowserMatches(dir) ==
    { e \in fs.entries :
        /\ e.dir = dir
        /\ e.kind = "file"
        /\ IsUnix(host) => e.exec
        /\ IsSome(call.input.browser)
        /\ Contains(e.name, <<"c", "u", "r", "l", "_">> \o Unwrap(call.input.browser)) }

\* the only files present are several such matches in one searched directory
SeveralMatches(dir) ==
    /\ call.op = "find_existing_binary"
    /\ dir \in Range(SearchOrder)
    /\ BrowserMatches(dir) = fs.entries
    /\ Cardinality(fs.entries) >= 2

\* C21: when a searched directory holds several qualifying files matching
\* the browser's pattern, find_existing_binary returns the one whose
\* filename digits give the highest number.
C21_HighestVersionLocated ==
    \A dir \in Range(SearchOrder) :
        SeveralMatches(dir) =>
            /\ IsSome(call.found)
            /\ \E e \in BrowserMatches(dir) :
                   /\ Unwrap(call.found) = PathOf(e)
                   /\ \A o \in BrowserMatches(dir) :
                          ~NumLess(FilenameValue(e), FilenameValue(o))

----------------------------------------------------------------------------
(* Further properties of the response decoder, checked under SpecDecode.   *)

\* the stream is made of header blocks and a body, and was accepted
Accepted == Decoded /\ resp.ok /\ gen.blocks # <<>>

\* ---- C22 ----

\* C22: for every accepted stream of header blocks and a body, raw_body is
\* the bytes after the separator that ends the final block, whatever the
\* body holds.
C22_RawBodyFollowsFinalSeparator ==
    Accepted => resp.raw_body = gen.body

\* ---- C23 ----

\* a stream of blocks on which the block splitting of C2 and the separator
\* search of C22 go right: no header value and no body holds "HTTP/"
PlainBlocks ==
    /\ Decoded
    /\ gen.blocks # <<>>
    /\ ViaHeader \notin Range(FinalBlock.headers)
    /\ ~Contains(gen.body, HttpMarker)

\* the final block has a content-type header, in any case, that names JSON
JsonDeclared ==
    \E h \in Range(FinalBlock.headers) :
        /\ ToLowercase(h.key) = ContentTypeKey
        /\ Contains(ToLowercase(h.value), ApplicationJson)

BodyJson == FromStr(Utf8Lossy(gen.body))

\* the result type asked for can hold the body's JSON value
Representable == resp.target = "Value" \/ BodyJson.value.kind = "object"

\* C23: with a JSON content type, a body that is not valid JSON gives
\* JsonError; without one, a valid JSON body is returned parsed, and a body
\* that is not valid JSON is returned as a string holding the text when the
\* result type is a generic value, and gives JsonError when it is a struct.
C23_BodyDecoding ==
    PlainBlocks =>
        /\ (JsonDeclared /\ ~BodyJson.ok) =>
               (~resp.ok /\ resp.err = "JsonError")
        /\ (~JsonDeclared /\ BodyJson.ok /\ Representable) =>
               (resp.ok /\ resp.data = BodyJson.value)
        /\ (~JsonDeclared /\ ~BodyJson.ok) =>
               IF resp.target = "Value"
               THEN resp.ok /\ resp.data = [kind |-> "string", text |-> Utf8Lossy(gen.body)]
               ELSE ~resp.ok /\ resp.err = "JsonError"

\* ---- C24 ----

\* the keys of the final block's header lines
FinalKeys == {h.key : h \in Range(FinalBlock.headers)}

\* the value of the last header line of the final block with the key
LastValue(key) ==
    LET at == {i \in DOMAIN FinalBlock.headers : FinalBlock.headers[i].key = key}
    IN  FinalBlock.headers[CHOOSE i \in at : \A j \in at : j <= i].value

\* C24: the header map of an accepted stream holds exactly the header lines
\* of the final block, each key with the value of its last line, and nothing
\* of an earlier block.
C24_HeadersOfFinalBlock ==
    Accepted =>
        /\ DOMAIN resp.headers = FinalKeys
        /\ \A k \in FinalKeys : resp.headers[k] = LastValue(k)

\* ---- C25 ----

\* the stream has 5 bytes or more and holds "HTTP/", and neither separator
\* occurs at or after an "HTTP/"
NoSeparatorAfterMarker ==
    /\ Len(stdout) >= 5
    /\ Contains(stdout, HttpMarker)
    /\ \A i \in 0..(Len(stdout) - 1) :
           IsAt(stdout, i, HttpMarker) =>
               \A j \in i..(Len(stdout) - 1) :
                   ~IsAt(stdout, j, Separator1) /\ ~IsAt(stdout, j, Separator2)

\* C25: such a stream is not refused with InvalidResponse; when the body
\* can be returned (always, for a generic value) the response has status
\* 200, status text "OK", no headers, and the whole stream as raw_body,
\* whatever status line the stream holds.
C25_NoSeparatorDefaults ==
    (Decoded /\ NoSeparatorAfterMarker) =>
        /\ ~resp.ok => resp.err = "JsonError"
        /\ resp.target = "Value" => resp.ok
        /\ resp.ok =>
               /\ resp.status = DefaultStatus
               /\ resp.status_text = DefaultStatusText
               /\ resp.headers = EmptyMap
               /\ resp.raw_body = stdout

\* a status line 404 and a header line, cut off before the separator
C25_Witness ==
    /\ Decoded
    /\ NoSeparatorAfterMarker
    /\ Contains(stdout, <<"4", "0", "4", " ", "N", "o", "t", " ", "F", "o", "u", "n", "d">>)
    /\ Contains(stdout, <<"C", "o", "n", "t", "e", "n", "t", "-", "T", "y", "p", "e">>)
    /\ resp.ok
    /\ resp.status = DefaultStatus

----------------------------------------------------------------------------
(* A further property of the session, checked under SpecResolve.           *)

\* ---- C26 ----

\* the step is a set_descriptor call that failed validation
FailedSetDescriptor ==
    /\ hist' # hist
    /\ hist'.last.op = "set_descriptor"
    /\ ~hist'.last.result.ok

\* C26: a set_descriptor call that fails validation changes nothing: the
\* session keeps its descriptor, cached path and binary info, the files are
\* untouched, and verify_binary has the same outcomes after it as before.
C26_FailedSetDescriptorChangesNothing ==
    [][FailedSetDescriptor =>
           /\ cuimp' = cuimp
           /\ fs' = fs
           /\ \A net \in Nets :
                  verify_binary(cuimp', fs', host', net) = verify_binary(cuimp, fs, host, net)
      ]_vars

\* a set_descriptor call failed on a session that had resolved its binary
C26_Witness ==
    /\ hist.last.op = "set_descriptor"
    /\ ~hist.last.result.ok
    /\ hist.last.result.err = "UnsupportedBrowser"
    /\ IsSome(cuimp.path)
    /\ IsSome(cuimp.binary_info)

====
